---- MODULE Spec2Model ----
(***************************************************************************)
(* A model of the yane2 6502 core: the bus (src/src/bus/mod.rs), the CPU   *)
(* core and its clock dispatcher (src/src/cpu/mod.rs), the addressing      *)
(* modes (src/src/cpu/addr_modes.rs) and the operations                    *)
(* (src/src/cpu/operations.rs).                                            *)
(*                                                                         *)
(* Representation.                                                         *)
(*  - u8 and u16 values are naturals below 2^8 and 2^16.                   *)
(*  - The usize counter `cycles` is an integer that stands for its value   *)
(*    modulo 2^64: a negative value -k stands for 2^64 - k, the value an   *)
(*    unchecked build holds after the counter wrapped below zero.          *)
(*  - Rust's `+=`/`-=`/`+` on integers panic on overflow in a build with   *)
(*    overflow checks (the default dev/test profile) and wrap in a build   *)
(*    without them (the default release profile).  `overflow_checks` is    *)
(*    the build's choice; `panic` records the panic that ended the run.    *)
(*  - RAM is a sparse map whose domain is the set of addresses that hold a *)
(*    non-zero byte: every other address holds 0, as Bus::new left it or   *)
(*    as a later write made it.                                            *)
(***************************************************************************)
EXTENDS Integers, Sequences, FiniteSets, TLC

VARIABLES
    a, x, y, sp, pc, status,          \* CpuCore registers
    fetched, addr_abs, addr_rel,      \* CpuCore scratch
    opcode,                           \* CpuCore.opcode
    cycles, clock_count,              \* CpuCore counters
    ram,                              \* Bus.ram
    panic,                            \* "none", or the panic that ended the run
    overflow_checks,                  \* the build profile
    phase,                            \* the host's position
    resets_left, tick_limit,          \* the host's budget of calls
    disas,                            \* a call of Cpu::disassemble in progress
    ines                              \* a file handed to the iNES parser, and the outcome

vars == <<a, x, y, sp, pc, status, fetched, addr_abs, addr_rel, opcode,
          cycles, clock_count, ram, panic, overflow_checks, phase,
          resets_left, tick_limit, disas, ines>>

(***************************************************************************)
(* Bounds of the exploration.                                              *)
(***************************************************************************)
MaxTicks == 22
MaxTicksReset == 20
MaxTicksDemo == 140
MaxResets == 1

(***************************************************************************)
(* Machine integers and bitwise operators.                                 *)
(***************************************************************************)
Byte == 0..255

RECURSIVE BitAnd(_, _)
BitAnd(m, n) ==
    IF m = 0 \/ n = 0 THEN 0
    ELSE (m % 2) * (n % 2) + 2 * BitAnd(m \div 2, n \div 2)

RECURSIVE BitOr(_, _)
BitOr(m, n) ==
    IF m = 0 THEN n
    ELSE IF n = 0 THEN m
    ELSE (IF m % 2 = 1 \/ n % 2 = 1 THEN 1 ELSE 0) + 2 * BitOr(m \div 2, n \div 2)

RECURSIVE BitXor(_, _)
BitXor(m, n) ==
    IF m = 0 THEN n
    ELSE IF n = 0 THEN m
    ELSE (((m % 2) + (n % 2)) % 2) + 2 * BitXor(m \div 2, n \div 2)

\* `!v` on a u8 and on a u16
Not8(v) == 255 - v
Not16(v) == 65535 - v

\* u16::wrapping_add / overflowing_add(..).0
WrapAdd16(m, n) == (m + n) % 65536
\* u8::wrapping_sub
WrapSub8(m, n) == (m - n + 256) % 256

(***************************************************************************)
(* Flags (bitflags! Flags: u8).                                            *)
(***************************************************************************)
C == 1
Z == 2
I == 4
D == 8
B == 16
U == 32
V == 64
N == 128

(***************************************************************************)
(* Bus.                                                                    *)
(***************************************************************************)
BusRead(mem, addr) ==
    IF addr >= 0 /\ addr <= 65535
    THEN (IF addr \in DOMAIN mem THEN mem[addr] ELSE 0)
    ELSE 0

\* Bus::write, had the 2 KiB of NES work RAM been mirrored through the map
BusWrite_Mirrored(mem, addr, data) ==
    IF data = 0
    THEN [k \in (DOMAIN mem) \ {addr % 2048} |-> mem[k]]
    ELSE [k \in (DOMAIN mem) \cup {addr % 2048} |->
             IF k = addr % 2048 THEN data ELSE mem[k]]

BusWrite(mem, addr, data) ==
    IF addr >= 0 /\ addr <= 65535
    THEN (IF data = 0
          THEN [k \in (DOMAIN mem) \ {addr} |-> mem[k]]
          ELSE [k \in (DOMAIN mem) \cup {addr} |->
                   IF k = addr THEN data ELSE mem[k]])
    ELSE mem

(***************************************************************************)
(* The opcode table built by Cpu::new.                                     *)
(***************************************************************************)
Entry(name, mode, cy) == [name |-> name, addr_mode |-> mode, cycles |-> cy]

NopOpcodes ==
    { \h04, \h0C, \h14, \h1A, \h1C, \h34, \h3A, \h3C, \h44, \h54, \h5A, \h5C,
      \h64, \h74, \h7A, \h7C, \h80, \h82, \h89, \hC2, \hD4, \hDA, \hDC, \hE2,
      \hEA, \hF4, \hFA, \hFC }

opcodes ==
    [k \in NopOpcodes |-> Entry("NOP", "IMP", 0)]
    @@ (\hA1 :> Entry("LDA", "IZX", 6)) @@ (\hA5 :> Entry("LDA", "ZP0", 3))
    @@ (\hA9 :> Entry("LDA", "IMM", 2)) @@ (\hAD :> Entry("LDA", "ABS", 4))
    @@ (\hB1 :> Entry("LDA", "IZY", 5)) @@ (\hB5 :> Entry("LDA", "ZPX", 4))
    @@ (\hB9 :> Entry("LDA", "ABY", 4)) @@ (\hBD :> Entry("LDA", "ABX", 4))
    @@ (\hA2 :> Entry("LDX", "IMM", 2)) @@ (\hA6 :> Entry("LDX", "ZP0", 3))
    @@ (\hAE :> Entry("LDX", "ABS", 4)) @@ (\hB6 :> Entry("LDX", "ZPY", 4))
    @@ (\hBE :> Entry("LDX", "ABY", 4))
    @@ (\hA0 :> Entry("LDY", "IMM", 2)) @@ (\hA4 :> Entry("LDY", "ZP0", 3))
    @@ (\hAC :> Entry("LDY", "ABS", 4)) @@ (\hB4 :> Entry("LDY", "ZPX", 4))
    @@ (\hBC :> Entry("LDY", "ABX", 4))
    @@ (\h81 :> Entry("STA", "IZX", 6)) @@ (\h85 :> Entry("STA", "ZP0", 3))
    @@ (\h8D :> Entry("STA", "ABS", 4)) @@ (\h91 :> Entry("STA", "IZY", 6))
    @@ (\h95 :> Entry("STA", "ZPX", 4)) @@ (\h99 :> Entry("STA", "ABY", 5))
    @@ (\h9D :> Entry("STA", "ABX", 5))
    @@ (\h86 :> Entry("STX", "ZP0", 3)) @@ (\h8E :> Entry("STX", "ABS", 4))
    @@ (\h96 :> Entry("STX", "ZPY", 4))
    @@ (\h84 :> Entry("STY", "ZP0", 3)) @@ (\h8C :> Entry("STY", "ABS", 4))
    @@ (\h94 :> Entry("STY", "ZPX", 4))
    @@ (\h61 :> Entry("ADC", "IZX", 6)) @@ (\h65 :> Entry("ADC", "ZP0", 3))
    @@ (\h69 :> Entry("ADC", "IMM", 2)) @@ (\h6D :> Entry("ADC", "ABS", 4))
    @@ (\h71 :> Entry("ADC", "IZY", 5)) @@ (\h75 :> Entry("ADC", "ZPX", 4))
    @@ (\h79 :> Entry("ADC", "ABY", 4)) @@ (\h7D :> Entry("ADC", "ABX", 4))
    @@ (\h18 :> Entry("CLC", "IMP", 2))
    @@ (\hCA :> Entry("DEX", "IMP", 2)) @@ (\h88 :> Entry("DEY", "IMP", 2))
    @@ (\hD0 :> Entry("BNE", "REL", 3))

\* the synthetic entry `opcode!(XXX, IMP, 0)` used for an opcode the table lacks
xxx == Entry("XXX", "IMP", 0)

\* `match opcodes.get(&opcode) { None => &xxx, Some(opcode) => opcode }`
Lookup(opc) == IF opc \in DOMAIN opcodes THEN opcodes[opc] ELSE xxx

(***************************************************************************)
(* CpuCore, as a record c; every method maps a record to a record.         *)
(***************************************************************************)
Panicked(c) == c.panic # "none"

\* `let v = e; F(v)`: e is computed once and F works on its value
Bind(e, F(_)) == CHOOSE r \in { F(v) : v \in {e} } : TRUE

\* CpuCore::new
\* CpuCore::new, had it built the status reset() builds
CpuCoreNew_UnusedSet(mem) ==
    [a |-> 0, x |-> 0, y |-> 0, sp |-> 0, pc |-> 0, status |-> U,
     fetched |-> 0, addr_abs |-> 0, addr_rel |-> 0, opcode |-> 0,
     cycles |-> 0, clock_count |-> 0, ram |-> mem, panic |-> "none"]

CpuCoreNew(mem) ==
    [a |-> 0, x |-> 0, y |-> 0, sp |-> 0, pc |-> 0, status |-> 0,
     fetched |-> 0, addr_abs |-> 0, addr_rel |-> 0, opcode |-> 0,
     cycles |-> 0, clock_count |-> 0, ram |-> mem, panic |-> "none"]

read(c, addr) == BusRead(c.ram, addr)

write(c, addr, value) == [c EXCEPT !.ram = BusWrite(c.ram, addr, value)]

\* Flags::contains
get_flag(c, flag) == BitAnd(c.status, flag) = flag

\* set_flag, had it cleared a flag by toggling it
set_flag_ClearByToggle(c, flag, on_off) ==
    [c EXCEPT !.status = IF on_off THEN BitOr(@, flag) ELSE BitXor(@, flag)]

\* set_flag, had it stored the flag instead of inserting it
set_flag_Overwrite(c, flag, on_off) ==
    [c EXCEPT !.status = IF on_off THEN flag ELSE BitAnd(@, Not8(flag))]

\* Flags::set: insert when on, remove when off
set_flag(c, flag, on_off) ==
    [c EXCEPT !.status = IF on_off THEN BitOr(@, flag)
                                   ELSE BitAnd(@, Not8(flag))]

\* `cpu.pc += 1` on a u16
IncPc(c) ==
    IF Panicked(c) THEN c
    ELSE IF c.pc = 65535
         THEN (IF overflow_checks THEN [c EXCEPT !.panic = "pc_overflow"]
                                  ELSE [c EXCEPT !.pc = 0])
         ELSE [c EXCEPT !.pc = @ + 1]

fetch(c) ==
    IF Lookup(c.opcode).addr_mode = "IMP" THEN c
    ELSE [c EXCEPT !.fetched = read(c, c.addr_abs)]

\* reset, had it left addr_abs at the vector address it read through
reset_KeepsVectorAddress(c) ==
    LET low == read(c, \hFFFC)
        high == read(c, \hFFFC + 1)
    IN [c EXCEPT !.pc = BitOr(high * 256, low),
                 !.a = 0, !.x = 0, !.y = 0, !.sp = \hFD,
                 !.status = U,
                 !.addr_rel = 0, !.addr_abs = \hFFFC, !.fetched = 0,
                 !.cycles = 8]

reset(c) ==
    LET low == read(c, \hFFFC)
        high == read(c, \hFFFC + 1)
    IN [c EXCEPT !.pc = BitOr(high * 256, low),
                 !.a = 0, !.x = 0, !.y = 0, !.sp = \hFD,
                 !.status = U,
                 !.addr_rel = 0, !.addr_abs = 0, !.fetched = 0,
                 !.cycles = 8]

complete(c) == c.cycles = 0

(***************************************************************************)
(* Addressing modes: each maps the core to the core it leaves and the      *)
(* extra-cycle value it returns.                                           *)
(***************************************************************************)
Ret(c, extra) == [cpu |-> c, extra |-> extra]

IMP_run(c) == Ret([c EXCEPT !.fetched = c.a], 0)

IMM_run(c) ==
    LET c1 == [c EXCEPT !.addr_abs = c.pc]
    IN Ret(IncPc(c1), 0)

ZP0_run(c) ==
    LET c1 == [c EXCEPT !.addr_abs = read(c, c.pc)]
    IN Ret(IncPc(c1), 0)

ZPX_run(c) ==
    LET c1 == [c EXCEPT !.addr_abs =
                   BitAnd(WrapAdd16(read(c, c.pc), c.x), \h00FF)]
    IN Ret(IncPc(c1), 0)

ZPY_run(c) ==
    LET c1 == [c EXCEPT !.addr_abs =
                   BitAnd(WrapAdd16(read(c, c.pc), c.y), \h00FF)]
    IN Ret(IncPc(c1), 0)

\* REL, had it left the offset as an unsigned byte
REL_run_NoSignExtend(c) ==
    LET c1 == [c EXCEPT !.addr_rel = read(c, c.pc)]
    IN Ret(IncPc(c1), 0)

REL_run(c) ==
    LET c1 == [c EXCEPT !.addr_rel = read(c, c.pc)]
        c2 == IncPc(c1)
    IN IF Panicked(c2) THEN Ret(c2, 0)
       ELSE IF BitAnd(c2.addr_rel, \h0080) # 0
            THEN Ret([c2 EXCEPT !.addr_rel = BitOr(@, \hFF00)], 0)
            ELSE Ret(c2, 0)

ABS_run(c) ==
    LET low == read(c, c.pc)
        c1 == IncPc(c)
        high == read(c1, c1.pc)
        c2 == IncPc(c1)
    IN IF Panicked(c2) THEN Ret(c2, 0)
       ELSE Ret([c2 EXCEPT !.addr_abs = BitOr(high * 256, low)], 0)

\* ABX, had it never reported a page cross
ABX_run_NoPageCross(c) ==
    LET low == read(c, c.pc)
        c1 == IncPc(c)
        high == read(c1, c1.pc)
        c2 == IncPc(c1)
        addr == WrapAdd16(BitOr(high * 256, low), c.x)
    IN IF Panicked(c2) THEN Ret(c2, 0)
       ELSE Ret([c2 EXCEPT !.addr_abs = addr], 0)

ABX_run(c) ==
    LET low == read(c, c.pc)
        c1 == IncPc(c)
        high == read(c1, c1.pc)
        c2 == IncPc(c1)
        addr == WrapAdd16(BitOr(high * 256, low), c.x)
    IN IF Panicked(c2) THEN Ret(c2, 0)
       ELSE Ret([c2 EXCEPT !.addr_abs = addr],
                IF BitAnd(addr, \hFF00) # high * 256 THEN 1 ELSE 0)

ABY_run(c) ==
    LET low == read(c, c.pc)
        c1 == IncPc(c)
        high == read(c1, c1.pc)
        c2 == IncPc(c1)
        addr == WrapAdd16(BitOr(high * 256, low), c.y)
    IN IF Panicked(c2) THEN Ret(c2, 0)
       ELSE Ret([c2 EXCEPT !.addr_abs = addr],
                IF BitAnd(addr, \hFF00) # high * 256 THEN 1 ELSE 0)

\* IND, had it read the high byte from ptr + 1 on every page (no hardware bug)
IND_run_NoPageBug(c) ==
    LET ptr_low == read(c, c.pc)
        c1 == IncPc(c)
        ptr_high == read(c1, c1.pc)
        c2 == IncPc(c1)
        ptr == BitOr(ptr_high * 256, ptr_low)
        low == read(c2, ptr)
        high == read(c2, WrapAdd16(ptr, 1))
    IN IF Panicked(c2) THEN Ret(c2, 0)
       ELSE Ret([c2 EXCEPT !.addr_abs = BitOr(high * 256, low)], 0)

IND_run(c) ==
    LET ptr_low == read(c, c.pc)
        c1 == IncPc(c)
        ptr_high == read(c1, c1.pc)
        c2 == IncPc(c1)
        ptr == BitOr(ptr_high * 256, ptr_low)
        low == read(c2, ptr)
        high == IF ptr_low = \h00FF
                THEN read(c2, BitAnd(ptr, \hFF00))
                ELSE read(c2, ptr + 1)
    IN IF Panicked(c2) THEN Ret(c2, 0)
       ELSE Ret([c2 EXCEPT !.addr_abs = BitOr(high * 256, low)], 0)

IZX_run(c) ==
    LET ptr == read(c, c.pc)
        c1 == IncPc(c)
        ptr_x == ptr + c.x
        low == read(c1, ptr_x)
        high == read(c1, ptr_x + 1)
    IN IF Panicked(c1) THEN Ret(c1, 0)
       ELSE Ret([c1 EXCEPT !.addr_abs = BitOr(high * 256, low)], 0)

\* IZY, had it never reported a page cross
IZY_run_NoPageCross(c) ==
    LET ptr == read(c, c.pc)
        c1 == IncPc(c)
        low == read(c1, ptr)
        high == read(c1, ptr + 1)
        addr == WrapAdd16(BitOr(high * 256, low), c.y)
    IN IF Panicked(c1) THEN Ret(c1, 0)
       ELSE Ret([c1 EXCEPT !.addr_abs = addr], 0)

IZY_run(c) ==
    LET ptr == read(c, c.pc)
        c1 == IncPc(c)
        low == read(c1, ptr)
        high == read(c1, ptr + 1)
        addr == WrapAdd16(BitOr(high * 256, low), c.y)
    IN IF Panicked(c1) THEN Ret(c1, 0)
       ELSE Ret([c1 EXCEPT !.addr_abs = addr],
                IF BitAnd(addr, \hFF00) # high * 256 THEN 1 ELSE 0)

\* `addr_mode.run(core)`: dynamic dispatch on the entry's addressing mode
AddrModeRun(mode, c) ==
    CASE mode = "IMP" -> IMP_run(c)
      [] mode = "IMM" -> IMM_run(c)
      [] mode = "ZP0" -> ZP0_run(c)
      [] mode = "ZPX" -> ZPX_run(c)
      [] mode = "ZPY" -> ZPY_run(c)
      [] mode = "REL" -> REL_run(c)
      [] mode = "ABS" -> ABS_run(c)
      [] mode = "ABX" -> ABX_run(c)
      [] mode = "ABY" -> ABY_run(c)
      [] mode = "IND" -> IND_run(c)
      [] mode = "IZX" -> IZX_run(c)
      [] mode = "IZY" -> IZY_run(c)

(***************************************************************************)
(* Operations: each maps the core to the core it leaves and the            *)
(* extra-cycle value it returns.                                           *)
(***************************************************************************)
XXX_run(c) == Ret(c, 0)

LDA_run(c) ==
    LET c1 == fetch(c)
        v == c1.fetched
        c2 == [c1 EXCEPT !.a = v]
        c3 == set_flag(c2, Z, v = \h00)
    IN Ret(set_flag(c3, N, BitAnd(v, \h80) # 0), 1)

\* LDX, had it left the N flag alone
LDX_run_KeepsNegative(c) ==
    LET c1 == fetch(c)
        v == c1.fetched
        c2 == [c1 EXCEPT !.x = v]
    IN Ret(set_flag(c2, Z, v = \h00), 1)

LDX_run(c) ==
    LET c1 == fetch(c)
        v == c1.fetched
        c2 == [c1 EXCEPT !.x = v]
        c3 == set_flag(c2, Z, v = \h00)
    IN Ret(set_flag(c3, N, BitAnd(v, \h80) # 0), 1)

LDY_run(c) ==
    LET c1 == fetch(c)
        v == c1.fetched
        c2 == [c1 EXCEPT !.y = v]
        c3 == set_flag(c2, Z, v = \h00)
    IN Ret(set_flag(c3, N, BitAnd(v, \h80) # 0), 1)

STA_run(c) == Ret(write(c, c.addr_abs, c.a), 0)

\* STX, had it stored the accumulator
STX_run_StoresA(c) == Ret(write(c, c.addr_abs, c.a), 0)

STX_run(c) == Ret(write(c, c.addr_abs, c.x), 0)

STY_run(c) == Ret(write(c, c.addr_abs, c.y), 0)

CLC_run(c) == Ret(set_flag(c, C, FALSE), 0)

\* ADC, had it left the carry flag out of the sum
ADC_run_NoCarryIn(c) ==
    LET c0 == fetch(c)
        f == c0.fetched
        acc == c0.a
        temp == acc + f
        c1 == set_flag(c0, C, temp > 255)
        c2 == set_flag(c1, Z, BitAnd(temp, \h00FF) = 0)
        v == BitAnd(Not16(BitXor(acc, f)), BitXor(acc, temp))
        c3 == set_flag(c2, V, BitAnd(v, \h0080) # 0)
        c4 == set_flag(c3, N, BitAnd(temp, \h0080) # 0)
    IN Ret([c4 EXCEPT !.a = BitAnd(temp, \h00FF)], 1)

ADC_run(c) ==
    LET c0 == fetch(c)
        f == c0.fetched
        acc == c0.a
        carry == IF get_flag(c0, C) THEN 1 ELSE 0
        temp == acc + f + carry
        c1 == set_flag(c0, C, temp > 255)
        c2 == set_flag(c1, Z, BitAnd(temp, \h00FF) = 0)
        v == BitAnd(Not16(BitXor(acc, f)), BitXor(acc, temp))
        c3 == set_flag(c2, V, BitAnd(v, \h0080) # 0)
        c4 == set_flag(c3, N, BitAnd(temp, \h0080) # 0)
    IN Ret([c4 EXCEPT !.a = BitAnd(temp, \h00FF)], 1)

DEX_run(c) ==
    LET c1 == [c EXCEPT !.x = WrapSub8(c.x, 1)]
        c2 == set_flag(c1, Z, c1.x = \h00)
    IN Ret(set_flag(c2, N, BitAnd(c1.x, \h80) # 0), 0)

DEY_run(c) ==
    LET c1 == [c EXCEPT !.y = WrapSub8(c.y, 1)]
        c2 == set_flag(c1, Z, c1.y = \h00)
    IN Ret(set_flag(c2, N, BitAnd(c1.y, \h80) # 0), 0)

\* BNE, had it computed the target and not loaded it into PC
BNE_run_NoJump(c) ==
    IF ~get_flag(c, Z)
    THEN LET target == WrapAdd16(c.pc, c.addr_rel)
             cross == BitAnd(target, \hFF00) # BitAnd(c.pc, \hFF00)
         IN Ret([c EXCEPT !.cycles = @ + 1 + (IF cross THEN 1 ELSE 0),
                          !.addr_abs = target], 0)
    ELSE Ret(c, 0)

BNE_run(c) ==
    IF ~get_flag(c, Z)
    THEN LET target == WrapAdd16(c.pc, c.addr_rel)
             cross == BitAnd(target, \hFF00) # BitAnd(c.pc, \hFF00)
         IN Ret([c EXCEPT !.cycles = @ + 1 + (IF cross THEN 1 ELSE 0),
                          !.addr_abs = target,
                          !.pc = target], 0)
    ELSE Ret(c, 0)

NOP_run(c) ==
    Ret(c, IF c.opcode \in {\h1C, \h3C, \h5C, \h7C, \hDC, \hFC} THEN 1 ELSE 0)

\* `op.run(opcodes, core)`: dynamic dispatch on the entry's operation
OperationRun(name, c) ==
    CASE name = "XXX" -> XXX_run(c)
      [] name = "LDA" -> LDA_run(c)
      [] name = "LDX" -> LDX_run(c)
      [] name = "LDY" -> LDY_run(c)
      [] name = "STA" -> STA_run(c)
      [] name = "STX" -> STX_run(c)
      [] name = "STY" -> STY_run(c)
      [] name = "CLC" -> CLC_run(c)
      [] name = "ADC" -> ADC_run(c)
      [] name = "DEX" -> DEX_run(c)
      [] name = "DEY" -> DEY_run(c)
      [] name = "BNE" -> BNE_run(c)
      [] name = "NOP" -> NOP_run(c)

(***************************************************************************)
(* Cpu::clock.                                                             *)
(***************************************************************************)
\* the body of `if core.cycles == 0 { ... }`: fetch, decode and execute
Decode(c) ==
    LET opc == read(c, c.pc)
        entry == Lookup(opc)
    IN Bind(IncPc(set_flag([c EXCEPT !.opcode = opc], U, TRUE)), LAMBDA c2 :
         IF Panicked(c2) THEN c2
         ELSE Bind(AddrModeRun(entry.addr_mode,
                               [c2 EXCEPT !.cycles = entry.cycles]), LAMBDA r1 :
           IF Panicked(r1.cpu) THEN r1.cpu
           ELSE Bind(OperationRun(entry.name, r1.cpu), LAMBDA r2 :
             [r2.cpu EXCEPT !.cycles = @ + BitAnd(r1.extra, r2.extra)])))

\* `core.cycles -= 1` on a usize
DecCycles(c) ==
    IF c.cycles = 0
    THEN (IF overflow_checks THEN [c EXCEPT !.panic = "cycles_underflow"]
                             ELSE [c EXCEPT !.cycles = -1])
    ELSE [c EXCEPT !.cycles = @ - 1]

\* clock, had it fetched the next opcode one tick early
clock_FetchAtOne(c) ==
    Bind(IF c.cycles <= 1 /\ c.cycles >= 0 THEN Decode(c) ELSE c, LAMBDA c1 :
      IF Panicked(c1) THEN c1
      ELSE Bind(DecCycles(c1), LAMBDA c2 :
        IF Panicked(c2) THEN c2
        ELSE [c2 EXCEPT !.clock_count = @ + 1]))

clock(c) ==
    Bind(IF c.cycles = 0 THEN Decode(c) ELSE c, LAMBDA c1 :
      IF Panicked(c1) THEN c1
      ELSE Bind(DecCycles(c1), LAMBDA c2 :
        IF Panicked(c2) THEN c2
        ELSE [c2 EXCEPT !.clock_count = @ + 1]))

(***************************************************************************)
(* The host: it builds the bus, loads an image, constructs the CPU, and    *)
(* then calls reset() and clock().                                         *)
(***************************************************************************)
Core ==
    [a |-> a, x |-> x, y |-> y, sp |-> sp, pc |-> pc, status |-> status,
     fetched |-> fetched, addr_abs |-> addr_abs, addr_rel |-> addr_rel,
     opcode |-> opcode, cycles |-> cycles, clock_count |-> clock_count,
     ram |-> ram, panic |-> panic]

\* the core after a call is c
Becomes(c) ==
    /\ a' = c.a /\ x' = c.x /\ y' = c.y /\ sp' = c.sp /\ pc' = c.pc
    /\ status' = c.status /\ fetched' = c.fetched
    /\ addr_abs' = c.addr_abs /\ addr_rel' = c.addr_rel
    /\ opcode' = c.opcode /\ cycles' = c.cycles
    /\ clock_count' = c.clock_count /\ ram' = c.ram /\ panic' = c.panic

\* no call of disassemble is in progress; no file is being parsed
NoDisas == [state |-> "off"]
NoINes == [state |-> "off"]

\* `bus.ram[addr] = byte; addr += 1` for each byte of a program
RECURSIVE LoadBytes(_, _, _)
LoadBytes(mem, addr, bytes) ==
    IF bytes = << >> THEN mem
    ELSE LoadBytes(BusWrite(mem, addr, Head(bytes)), addr + 1, Tail(bytes))

\* `bus.ram[0xFFFC] = lo; bus.ram[0xFFFD] = hi`
SetResetVector(mem, start) ==
    BusWrite(BusWrite(mem, \hFFFC, start % 256), \hFFFD, start \div 256)

\* the memory Bus::new creates: all zero
ZeroRam == << >>

\* the program of test0, loaded at 0x8000
DemoProgram ==
    << \hA2, \h0A, \h8E, \h00, \h00, \hA2, \h03, \h8E, \h01, \h00,
       \hAC, \h00, \h00, \hA9, \h00, \h18, \h6D, \h01, \h00, \h88,
       \hD0, \hFA, \h8D, \h02, \h00, \hEA, \hEA, \hEA >>

DemoStart == \h8000

DemoRam == SetResetVector(LoadBytes(ZeroRam, DemoStart, DemoProgram), DemoStart)

(***************************************************************************)
(* The images explored: three immediate loads that set A, X and Y, then    *)
(* one instruction under test, over a data image.                          *)
(***************************************************************************)
OperandBytes == {\h00, \h20, \h7F, \h80, \hFF}
HighBytes == {\h00, \h01}
AValues == {\h7F, \h80}
XValues == {\h01, \hFF}
YValues == {\h00, \hFF}
UndefinedOpcodes == {\h00, \h02, \h4C, \hFF}
TestOpcodes == (DOMAIN opcodes) \cup UndefinedOpcodes
Starts == {\h8000}

\* the bytes the decoder consumes after an opcode of this addressing mode
OperandCount(mode) ==
    CASE mode = "IMP" -> 0
      [] mode \in {"IMM", "ZP0", "ZPX", "ZPY", "REL", "IZX", "IZY"} -> 1
      [] mode \in {"ABS", "ABX", "ABY", "IND"} -> 2

Instructions(ops) ==
    UNION { CASE OperandCount(Lookup(op).addr_mode) = 0 -> { <<op>> }
              [] OperandCount(Lookup(op).addr_mode) = 1 ->
                    { <<op, o1>> : o1 \in OperandBytes }
              [] OTHER ->
                    { <<op, o1, o2>> : o1 \in OperandBytes, o2 \in HighBytes }
            : op \in ops }

Prefix(va, vx, vy) == << \hA9, va, \hA2, vx, \hA0, vy >>

DataImage ==
    LoadBytes(LoadBytes(LoadBytes(LoadBytes(LoadBytes(ZeroRam,
        \h0000, << \h01, \h03 >>),
        \h0020, << \h80, \h00 >>),
        \h007F, << \hF0, \h55, \h02 >>),
        \h00FF, << \h40, \h05, \h06 >>),
        \h017F, << \h42, \h90 >>)

DataImages == { ZeroRam, DataImage }

Images(ops) ==
    { SetResetVector(LoadBytes(data, start, Prefix(va, vx, vy) \o ins), start) :
        data \in DataImages, start \in Starts,
        va \in AValues, vx \in XValues, vy \in YValues,
        ins \in Instructions(ops) }

\* the instructions run when reset() may come again at any time
ResetOpcodes == {\h8D, \h65, \hD0, \hB1, \hCA}

InitWith(images, resets, ticks) ==
    /\ ram \in images
    /\ overflow_checks \in BOOLEAN
    /\ a = 0 /\ x = 0 /\ y = 0 /\ sp = 0 /\ pc = 0 /\ status = 0
    /\ fetched = 0 /\ addr_abs = 0 /\ addr_rel = 0 /\ opcode = 0
    /\ cycles = 0 /\ clock_count = 0
    /\ panic = "none"
    /\ phase = "new"
    /\ resets_left = resets
    /\ tick_limit = ticks
    /\ disas = NoDisas
    /\ ines = NoINes

Init == InitWith(Images(TestOpcodes), 1, MaxTicks)

InitReset == InitWith(Images(ResetOpcodes), 1 + MaxResets, MaxTicksReset)

InitDemo == InitWith({DemoRam}, 1, MaxTicksDemo)

\* the host calls cpu.reset()
Reset ==
    /\ phase \in {"new", "running"}
    /\ panic = "none"
    /\ resets_left > 0
    /\ \E c \in {reset(Core)} : Becomes(c)
    /\ phase' = "running"
    /\ resets_left' = resets_left - 1
    /\ UNCHANGED <<overflow_checks, tick_limit, disas, ines>>

\* the host calls cpu.clock()
Tick ==
    /\ phase = "running"
    /\ panic = "none"
    /\ clock_count < tick_limit
    /\ \E c \in {clock(Core)} : Becomes(c)
    /\ UNCHANGED <<overflow_checks, phase, resets_left, tick_limit, disas, ines>>

Next == Reset \/ Tick

Spec == Init /\ [][Next]_vars

SpecReset == InitReset /\ [][Next]_vars

\* test0 calls reset(); the step loop of main calls clock() again and again
SpecDemo == InitDemo /\ [][Next]_vars /\ WF_vars(Next)

(***************************************************************************)
(* ADC alone: every accumulator, operand and carry, as the operation finds *)
(* them once ADC $10 (opcode 0x65) has been fetched and its addressing     *)
(* mode has run.                                                           *)
(***************************************************************************)
ADCOperandAddr == \h0010

InitADC ==
    /\ a \in Byte
    /\ \E operand \in Byte : ram = BusWrite(ZeroRam, ADCOperandAddr, operand)
    /\ status \in {U + C, U + Z + V + N}
    /\ overflow_checks \in BOOLEAN
    /\ x = \h11 /\ y = \h22 /\ sp = \hFD /\ pc = \h8002
    /\ fetched = 0 /\ addr_abs = ADCOperandAddr /\ addr_rel = 0
    /\ opcode = \h65
    /\ cycles = 3 /\ clock_count = 8
    /\ panic = "none"
    /\ phase = "adc"
    /\ resets_left = 0
    /\ tick_limit = 0
    /\ disas = NoDisas
    /\ ines = NoINes

\* `op.run(opcodes, core)` for the ADC entry
RunADC ==
    /\ phase = "adc"
    /\ \E c \in {ADC_run(Core).cpu} : Becomes(c)
    /\ phase' = "adc_done"
    /\ UNCHANGED <<overflow_checks, resets_left, tick_limit, disas, ines>>

SpecADC == InitADC /\ [][RunADC]_vars

(***************************************************************************)
(* IND alone: no entry of the table uses it, so it is run as the decoder   *)
(* would run it, right after the opcode byte at INDOpcodeAddr has been     *)
(* fetched, over every pointer of INDPointerLows x INDPointerHighs and     *)
(* every choice of the three bytes it may read.                            *)
(***************************************************************************)
INDOpcodeAddr == \h8000
INDPointerLows == {\h00, \h7F, \hFE, \hFF}
INDPointerHighs == {\h00, \h30, \hFF}
INDAtPointer == {\h40, \h00}
INDAfterPointer == {\h50, \hFF}
INDAtPageStart == {\h80, \h01}

INDImage(plo, phi, v1, v2, v3) ==
    LET ptr == phi * 256 + plo
    IN LoadBytes(
         BusWrite(BusWrite(BusWrite(ZeroRam,
            (ptr \div 256) * 256, v3),
            (ptr + 1) % 65536, v2),
            ptr, v1),
         INDOpcodeAddr, << \h6C, plo, phi >>)

InitIND ==
    /\ \E plo \in INDPointerLows, phi \in INDPointerHighs,
          v1 \in INDAtPointer, v2 \in INDAfterPointer, v3 \in INDAtPageStart :
            ram = INDImage(plo, phi, v1, v2, v3)
    /\ overflow_checks \in BOOLEAN
    /\ a = \h7F /\ x = \h01 /\ y = \hFF /\ sp = \hFD /\ status = U
    /\ pc = INDOpcodeAddr + 1
    /\ fetched = 0 /\ addr_abs = 0 /\ addr_rel = 0
    /\ opcode = \h6C
    /\ cycles = 5 /\ clock_count = 8
    /\ panic = "none"
    /\ phase = "ind"
    /\ resets_left = 0
    /\ tick_limit = 0
    /\ disas = NoDisas
    /\ ines = NoINes

\* `addr_mode.run(core)` for an IND entry
RunIND ==
    /\ phase = "ind"
    /\ \E c \in {IND_run(Core).cpu} : Becomes(c)
    /\ phase' = "ind_done"
    /\ UNCHANGED <<overflow_checks, resets_left, tick_limit, disas, ines>>

SpecIND == InitIND /\ [][RunIND]_vars

(***************************************************************************)
(* ABX::run and ABY::run on their own: the core stands right after the     *)
(* opcode fetch of an absolute-indexed load at IndexedOpcodeAddr, over     *)
(* every base of IndexedLows x IndexedHighs and every X and Y of           *)
(* IndexValues.                                                            *)
(***************************************************************************)
IndexedOpcodeAddr == \h8000
IndexedOpcodes == {\hBD, \hB9}
IndexedLows == {\h00, \h01, \h80, \hFF}
IndexedHighs == {\h00, \h7F, \hFF}
IndexValues == {\h00, \h01, \h80, \hFF}

InitIndexed ==
    /\ \E op \in IndexedOpcodes, lo \in IndexedLows, hi \in IndexedHighs :
          /\ opcode = op
          /\ ram = LoadBytes(ZeroRam, IndexedOpcodeAddr, << op, lo, hi >>)
    /\ x \in IndexValues
    /\ y \in IndexValues
    /\ overflow_checks \in BOOLEAN
    /\ a = 0 /\ sp = \hFD /\ status = U
    /\ pc = IndexedOpcodeAddr + 1
    /\ fetched = 0 /\ addr_abs = 0 /\ addr_rel = 0
    /\ cycles = 4 /\ clock_count = 8
    /\ panic = "none"
    /\ phase = "indexed"
    /\ resets_left = 0
    /\ tick_limit = 0
    /\ disas = NoDisas
    /\ ines = NoINes

\* `addr_mode.run(core)` for an ABX or ABY entry
RunIndexed ==
    /\ phase = "indexed"
    /\ \E c \in {AddrModeRun(Lookup(opcode).addr_mode, Core).cpu} : Becomes(c)
    /\ phase' = "indexed_done"
    /\ UNCHANGED <<overflow_checks, resets_left, tick_limit, disas, ines>>

SpecIndexed == InitIndexed /\ [][RunIndexed]_vars

(***************************************************************************)
(* clock() at the top of the address space: the core is at an instruction  *)
(* boundary (cycles = 0) with PC in TopAddrs, the opcode byte at PC and    *)
(* the two bytes after it at the following addresses modulo 65536; one     *)
(* clock() call decodes the instruction.                                   *)
(***************************************************************************)
TopAddrs == {\hFFFD, \hFFFE, \hFFFF}
TopOpcodes ==
    {\hEA, \hA9, \hA5, \hB5, \hB6, \hD0, \hAD, \hBD, \hB9, \hA1, \hB1, \h8D}
TopOperands == {\h00, \h20}

InitTop ==
    /\ pc \in TopAddrs
    /\ \E op \in TopOpcodes, o1 \in TopOperands, o2 \in TopOperands :
          ram = BusWrite(BusWrite(BusWrite(ZeroRam,
                   (pc + 2) % 65536, o2), (pc + 1) % 65536, o1), pc, op)
    /\ overflow_checks \in BOOLEAN
    /\ a = \h7F /\ x = 1 /\ y = 1 /\ sp = \hFD
    /\ status \in {U, U + Z}
    /\ fetched = 0 /\ addr_abs = 0 /\ addr_rel = 0 /\ opcode = 0
    /\ cycles = 0 /\ clock_count = 8
    /\ panic = "none"
    /\ phase = "running"
    /\ resets_left = 0
    /\ tick_limit = clock_count + 1
    /\ disas = NoDisas
    /\ ines = NoINes

SpecTop == InitTop /\ [][Tick]_vars

(***************************************************************************)
(* Cpu::disassemble(start_addr, stop_addr).  A call in progress is the     *)
(* record disas: the cursor addr, the map lines built so far, and state:   *)
(* "loop" while the while-loop runs, "returned" once the map is returned,  *)
(* or the panic that ended the call.  addr is a u16: `addr += 1` at 0xFFFF *)
(* panics in a build with overflow checks and wraps to 0 otherwise         *)
(* (wrapped records that it happened).  One step is one iteration of the   *)
(* loop; steps counts them.                                                *)
(***************************************************************************)
MaxDisSteps == 6

HexDigits ==
    << "0", "1", "2", "3", "4", "5", "6", "7",
       "8", "9", "A", "B", "C", "D", "E", "F" >>

HexDigit(n) == HexDigits[n + 1]

\* format!("{:>02X}", v)
Hex2(v) == HexDigit((v \div 16) % 16) \o HexDigit(v % 16)

\* format!("{:>04X}", v)
Hex4(v) == Hex2(v \div 256) \o Hex2(v % 256)

\* `addr += 1`
DisInc(d) ==
    IF d.addr = 65535
    THEN IF overflow_checks
         THEN [d EXCEPT !.state = "addr_overflow"]
         ELSE [d EXCEPT !.addr = 0, !.wrapped = TRUE]
    ELSE [d EXCEPT !.addr = @ + 1]

\* the operand text of the modes that read one byte
DisOperand1(kind, value) ==
    CASE kind = "IMM" -> "#$" \o Hex2(value) \o " {IMM}"
      [] kind = "ZP0" -> "$" \o Hex2(value) \o " {ZP0}"
      [] kind = "ZPX" -> "$" \o Hex2(value) \o ", X {ZPX}"
      [] kind = "ZPY" -> "$" \o Hex2(value) \o ", Y {ZPY}"
      [] kind = "IZX" -> "($" \o Hex2(value) \o ", X) {IZX}"
      [] kind = "IZY" -> "($" \o Hex2(value) \o "), Y {IZY}"

\* the operand text of the modes that read two bytes
DisOperand2(kind, word) ==
    CASE kind = "ABS" -> "$" \o Hex4(word) \o " {ABS}"
      [] kind = "ABX" -> "$" \o Hex4(word) \o ", X {ABX}"
      [] kind = "ABY" -> "$" \o Hex4(word) \o ", Y {ABY}"
      [] kind = "IND" -> "($" \o Hex4(word) \o ") {IND}"

\* the operand text of REL: the offset byte and `addr + value as u16`
DisOperandRel(value, target) ==
    "$" \o Hex2(value) \o " [$" \o Hex4(target) \o "] {REL}"

\* `lines.insert(line_addr, line)`
DisInsert(d, line_addr, line) ==
    [d EXCEPT !.lines = (line_addr :> line) @@ @]

\* one evaluation of the loop condition and, when it holds, of the body
disassemble(d, mem) ==
    IF d.addr > d.stop \/ d.addr = 65535
    THEN [d EXCEPT !.state = "returned", !.steps = @ + 1]
    ELSE
      LET line_addr == d.addr
          entry == Lookup(BusRead(mem, d.addr))
          kind == entry.addr_mode
          line == "$" \o Hex4(line_addr) \o ": " \o entry.name \o " "
          d1 == DisInc([d EXCEPT !.steps = @ + 1])
          v1 == BusRead(mem, d1.addr)
          d2 == DisInc(d1)
          v2 == BusRead(mem, d2.addr)
          d3 == DisInc(d2)
      IN CASE kind = "IMP" -> DisInsert(d1, line_addr, line \o " {IMP}")
           [] kind \in {"IMM", "ZP0", "ZPX", "ZPY", "IZX", "IZY"} ->
                IF d2.state # "loop" THEN d2
                ELSE DisInsert(d2, line_addr, line \o DisOperand1(kind, v1))
           [] kind = "REL" ->
                IF d2.state # "loop" THEN d2
                ELSE IF d2.addr + v1 > 65535 /\ overflow_checks
                     THEN [d2 EXCEPT !.state = "target_overflow"]
                     ELSE DisInsert(d2, line_addr,
                            line \o DisOperandRel(v1, (d2.addr + v1) % 65536))
           [] kind \in {"ABS", "ABX", "ABY", "IND"} ->
                IF d2.state # "loop" THEN d2
                ELSE IF d3.state # "loop" THEN d3
                ELSE DisInsert(d3, line_addr,
                       line \o DisOperand2(kind, BitOr(v2 * 256, v1)))

\* the memory windows disassembled: four bytes in the middle of memory, and
\* the last four bytes of memory
DisWindows == {\h8000, \hFFFC}
DisOpcodes == {\h00, \h7F, \h80, \hA9, \hAD, \hD0,
               \hA5, \hB5, \hB6, \hA1, \hB1, \hBD, \hB9}
DisBytes == {\h00, \h7F, \h80, \hA9, \hAD, \hD0}
DisLastBytes == {\h00, \h80, \hD0}
DisStartOffsets == {0, 2, 3}
DisStopOffsets == {1, 3}

InitDis ==
    /\ \E base \in DisWindows :
         /\ \E b0 \in DisOpcodes, b1 \in DisBytes, b2 \in DisBytes,
               b3 \in DisLastBytes :
                 ram = LoadBytes(ZeroRam, base, << b0, b1, b2, b3 >>)
         /\ \E so \in DisStartOffsets, eo \in DisStopOffsets :
                 disas = [state |-> "loop", start |-> base + so,
                          stop |-> base + eo, addr |-> base + so,
                          lines |-> << >>, wrapped |-> FALSE, steps |-> 0]
    /\ overflow_checks \in BOOLEAN
    /\ a = 0 /\ x = 0 /\ y = 0 /\ sp = 0 /\ pc = 0 /\ status = 0
    /\ fetched = 0 /\ addr_abs = 0 /\ addr_rel = 0 /\ opcode = 0
    /\ cycles = 0 /\ clock_count = 0
    /\ panic = "none"
    /\ phase = "dis"
    /\ resets_left = 0
    /\ tick_limit = 0
    /\ ines = NoINes

\* the loop of disassemble advances by one iteration
DisStep ==
    /\ phase = "dis"
    /\ disas.state = "loop"
    /\ disas.steps < MaxDisSteps
    /\ disas' = disassemble(disas, ram)
    /\ UNCHANGED <<a, x, y, sp, pc, status, fetched, addr_abs, addr_rel,
                   opcode, cycles, clock_count, ram, panic, overflow_checks,
                   phase, resets_left, tick_limit, ines>>

SpecDis == InitDis /\ [][DisStep]_vars

(***************************************************************************)
(* The iNES parser.  A file is its 16 header bytes and its length; a       *)
(* Vec<u8> cut from the file is the slice [off, off + len) of the file's   *)
(* bytes, so that two vectors are equal for every file content exactly     *)
(* when they are the same slice.  A Result is a record whose state is      *)
(* "ok", "err" (with the message of the failed ensure!) or "panic".        *)
(***************************************************************************)
Slice(off, len) == [off |-> off, len |-> len]

Err(msg) == [state |-> "err", msg |-> msg]

\* `(value & (1 << bit)) != 0`
is_bit_set(value, bit) == BitAnd(value, 2 ^ bit) # 0

\* `value >> n` on a u8
Shr(value, n) == value \div (2 ^ n)

\* `<<` on a u8, had the shift been left out
Shl8_NoShift(value, n) == value

\* `value << n` on a u8: the bits shifted out are lost
Shl8(value, n) == (value * (2 ^ n)) % 256

\* Header::new, had it taken any non-zero value of flag 7 bits 2-3 for NES 2.0
Header_new_AnyFormatBits(header) ==
    LET flag7 == header[8]
        flag9 == header[10]
    IN IF header[1] # \h4E THEN Err("Invalid magic word 0")
       ELSE IF header[2] # \h45 THEN Err("Invalid magic word 1")
       ELSE IF header[3] # \h53 THEN Err("Invalid magic word 2")
       ELSE IF header[4] # \h1A THEN Err("Invalid magic word 3")
       ELSE IF is_bit_set(flag7, 1) THEN Err("Playchoice detected, not supported")
       ELSE IF BitAnd(Shr(flag7, 2), 3) # 0
            THEN Err("Nes 2.0 format detected. Not supported")
       ELSE IF BitAnd(Shr(flag9, 1), 127) # 0
            THEN Err("invalid flag9, expecting zeroes")
       ELSE [state |-> "ok"]

\* Header::new(header: [u8; 16]); header[i] of the source is header[i + 1] here
Header_new(header) ==
    LET flag6 == header[7]
        low_mapper_number == Shr(flag6, 4)
        flag7 == header[8]
        high_mapper_number == Shr(flag7, 4)
        playchoice_10 == is_bit_set(flag7, 1)
        nes_2_0 == BitAnd(Shr(flag7, 2), 3) = 2
        flag9 == header[10]
        flag10 == header[11]
    IN IF header[1] # \h4E THEN Err("Invalid magic word 0")
       ELSE IF header[2] # \h45 THEN Err("Invalid magic word 1")
       ELSE IF header[3] # \h53 THEN Err("Invalid magic word 2")
       ELSE IF header[4] # \h1A THEN Err("Invalid magic word 3")
       ELSE IF playchoice_10 THEN Err("Playchoice detected, not supported")
       ELSE IF nes_2_0 THEN Err("Nes 2.0 format detected. Not supported")
       ELSE IF BitAnd(Shr(flag9, 1), 127) # 0
            THEN Err("invalid flag9, expecting zeroes")
       ELSE [state |-> "ok",
             prg_rom_size |-> header[5] * 16 * 1024,
             chr_rom_size |-> header[6] * 8 * 1024,
             mapper_number |-> BitOr(low_mapper_number, Shl8(high_mapper_number, 4)),
             nametable_arrangement |->
                 IF is_bit_set(flag6, 0) THEN "Horizontal" ELSE "Vertical",
             battery_backed_prg_ram |-> is_bit_set(flag6, 1),
             trainer_512 |-> is_bit_set(flag6, 2),
             alternative_nametable_layout |-> is_bit_set(flag6, 3),
             vs_unisystem |-> is_bit_set(flag7, 0),
             playchoice_10 |-> playchoice_10,
             nes_2_0 |-> nes_2_0,
             prg_ram_size |-> (IF header[9] = 0 THEN 1 ELSE header[9]) * 8 * 1024,
             tv_system |-> IF is_bit_set(flag9, 0) THEN "Ntsc" ELSE "Pal",
             tv_system_ext |->
                 CASE BitAnd(flag10, 3) = 0 -> "Legacy(Ntsc)"
                   [] BitAnd(flag10, 3) = 2 -> "Legacy(Pal)"
                   [] OTHER -> "Dual",
             high_prg_ram |-> is_bit_set(flag10, 4),
             bus_conflicts |-> is_bit_set(flag10, 5)]

\* INes::new on the bytes fs::read returned.  The argument of then_some is
\* evaluated before then_some looks at the flag; `&bytes[0..512]` and
\* Vec::split_off panic when the vector is shorter than the index.
INes_new(file) ==
    IF ~(file.len > 16) THEN Err("Missing iNes header")
    ELSE
      LET header == Header_new(file.header)
          bytes0 == Slice(16, file.len - 16)
          trainer_bytes == Slice(bytes0.off, 512)
          bytes1 == Slice(bytes0.off + 512, bytes0.len - 512)
          prg_rom == Slice(bytes1.off, header.prg_rom_size)
          bytes2 == Slice(bytes1.off + header.prg_rom_size,
                          bytes1.len - header.prg_rom_size)
          chr_rom == Slice(bytes2.off, header.chr_rom_size)
      IN IF header.state = "err" THEN header
         ELSE IF bytes0.len < 512
              THEN [state |-> "panic", msg |-> "range end index 512 out of range"]
         ELSE IF header.prg_rom_size > bytes1.len
              THEN [state |-> "panic", msg |-> "split_off: at > len"]
         ELSE IF header.chr_rom_size > bytes2.len
              THEN [state |-> "panic", msg |-> "split_off: at > len"]
         ELSE [state |-> "ok",
               header |-> header,
               trainer |-> IF header.trainer_512
                           THEN [some |-> TRUE, bytes |-> trainer_bytes]
                           ELSE [some |-> FALSE],
               prg_rom |-> prg_rom,
               chr_rom |-> chr_rom]

\* the headers parsed: the combinations of the values below, and every value
\* of flags 7 and 9 in an otherwise plain header
MagicWords ==
    { << \h4E, \h45, \h53, \h1A >>, << \h4F, \h45, \h53, \h1A >>,
      << \h4E, \h00, \h53, \h1A >>, << \h4E, \h45, \h73, \h1A >>,
      << \h4E, \h45, \h53, \h1B >> }
PrgUnits == {0, 255}
ChrUnits == {0, 255}
Flags6 == {\h00, \h04, \hFB}
Flags7 == {\h00, \h01, \h02, \h04, \h08, \h0A, \h0C, \h10, \hF0, \hF8, \hFD, \hFF}
Flags8 == {0, 255}
Flags9 == {\h00, \h01, \h02, \h80, \hFE, \hFF}
Flags10 == {\h00, \h32}

HeaderBytes(magic, b4, b5, b6, b7, b8, b9, b10) ==
    magic \o << b4, b5, b6, b7, b8, b9, b10, 0, 0, 0, 0, 0 >>

Headers ==
    { HeaderBytes(magic, b4, b5, b6, b7, b8, b9, b10) :
        magic \in MagicWords, b4 \in PrgUnits, b5 \in ChrUnits, b6 \in Flags6,
        b7 \in Flags7, b8 \in Flags8, b9 \in Flags9, b10 \in Flags10 }

InitHeader ==
    /\ \/ \E h \in Headers : ines = [state |-> "header", header |-> h]
       \/ \E b7 \in Byte, b9 \in Byte :
             ines = [state |-> "header",
                     header |-> HeaderBytes(<< \h4E, \h45, \h53, \h1A >>,
                                            1, 1, 0, b7, 0, b9, 0)]
    /\ overflow_checks \in BOOLEAN
    /\ ram = ZeroRam
    /\ a = 0 /\ x = 0 /\ y = 0 /\ sp = 0 /\ pc = 0 /\ status = 0
    /\ fetched = 0 /\ addr_abs = 0 /\ addr_rel = 0 /\ opcode = 0
    /\ cycles = 0 /\ clock_count = 0
    /\ panic = "none"
    /\ phase = "ines"
    /\ resets_left = 0
    /\ tick_limit = 0
    /\ disas = NoDisas

\* Header::new(header_bytes)
ParseHeader ==
    /\ phase = "ines"
    /\ ines.state = "header"
    /\ ines' = [state |-> "header_done", header |-> ines.header,
                result |-> Header_new(ines.header)]
    /\ UNCHANGED <<a, x, y, sp, pc, status, fetched, addr_abs, addr_rel,
                   opcode, cycles, clock_count, ram, panic, overflow_checks,
                   phase, resets_left, tick_limit, disas>>

SpecHeader == InitHeader /\ [][ParseHeader]_vars

\* the files parsed: a header of FileHeaders and a length of FileLengths(h),
\* the lengths at and around each boundary the header declares
FileHeaders ==
    { HeaderBytes(magic, b4, b5, b6, b7, 0, b9, 0) :
        magic \in { << \h4E, \h45, \h53, \h1A >>, << \h4E, \h45, \h53, \h1B >> },
        b4 \in {0, 1, 2}, b5 \in {0, 1}, b6 \in {\h00, \h04, \h10},
        b7 \in {\h00, \h02}, b9 \in {0, 1} }

DeclaredLength(h) ==
    16 + (IF BitAnd(h[7], 4) # 0 THEN 512 ELSE 0) + h[5] * 16384 + h[6] * 8192

FileLengths(h) ==
    { 0, 15, 16, 17, 527, 528 }
    \cup { DeclaredLength(h) + d : d \in {-1, 0, 1, 128, 511, 512, 640} }
    \cup { 16 + 512 + h[5] * 16384 + d : d \in {-1, 0} }

InitINes ==
    /\ \E h \in FileHeaders : \E n \in FileLengths(h) :
         ines = [state |-> "file", file |-> [header |-> h, len |-> n]]
    /\ overflow_checks \in BOOLEAN
    /\ ram = ZeroRam
    /\ a = 0 /\ x = 0 /\ y = 0 /\ sp = 0 /\ pc = 0 /\ status = 0
    /\ fetched = 0 /\ addr_abs = 0 /\ addr_rel = 0 /\ opcode = 0
    /\ cycles = 0 /\ clock_count = 0
    /\ panic = "none"
    /\ phase = "ines"
    /\ resets_left = 0
    /\ tick_limit = 0
    /\ disas = NoDisas

\* INes::new(path) on a file that fs::read could read
ParseINes ==
    /\ phase = "ines"
    /\ ines.state = "file"
    /\ ines' = [state |-> "file_done", file |-> ines.file,
                result |-> INes_new(ines.file)]
    /\ UNCHANGED <<a, x, y, sp, pc, status, fetched, addr_abs, addr_rel,
                   opcode, cycles, clock_count, ram, panic, overflow_checks,
                   phase, resets_left, tick_limit, disas>>

SpecINes == InitINes /\ [][ParseINes]_vars

(***************************************************************************)
(* The front end, main: start-up builds the CPU with test0() or with      *)
(* nestest(path).  Both end with reset().  nestest first parses the file   *)
(* with INes::new(path)?: an Err is returned to main, which returns it, a  *)
(* panic unwinds, and in both cases no CPU is built (phase "no_cpu"); when *)
(* the file parses, nestest loads nothing but the reset vector into the    *)
(* bus and forces PC to 0xC000.  The event loop then serves key presses.   *)
(* Space runs `loop { clock(); if complete() break }`, one clock() per     *)
(* step here: phase is "frame" at the top of the event loop and "stepping" *)
(* inside the step loop.  R calls reset().                                 *)
(***************************************************************************)
MaxMainTicks == 40
MaxMainResets == 2

NestestStart == \hC000

test0 == reset(CpuCoreNew(DemoRam))

\* nestest(path) on the bytes of the file at path
nestest(file) ==
    LET parsed == INes_new(file)
    IN IF parsed.state # "ok" THEN parsed
       ELSE [state |-> "ok",
             cpu |-> [reset(CpuCoreNew(SetResetVector(ZeroRam, DemoStart)))
                         EXCEPT !.pc = NestestStart]]

\* the files given to nestest: a 16 KiB PRG + 8 KiB CHR image with a good or
\* a bad magic word, with or without the NES 2.0 marker, as the header alone,
\* as header + PRG + CHR, and with 512 bytes more
NestestFiles ==
    { [header |-> HeaderBytes(magic, 1, 1, 0, b7, 0, 0, 0), len |-> n] :
        magic \in { << \h4E, \h45, \h53, \h1A >>, << \h4E, \h45, \h53, \h1B >> },
        b7 \in {\h00, \h08},
        n \in {16, 16 + 16384 + 8192, 16 + 512 + 16384 + 8192} }

InitMain ==
    /\ \/ /\ ines = NoINes
          /\ phase = "frame"
          /\ \E c \in {test0} :
               /\ a = c.a /\ x = c.x /\ y = c.y /\ sp = c.sp /\ pc = c.pc
               /\ status = c.status /\ fetched = c.fetched
               /\ addr_abs = c.addr_abs /\ addr_rel = c.addr_rel
               /\ opcode = c.opcode /\ cycles = c.cycles
               /\ clock_count = c.clock_count /\ ram = c.ram /\ panic = c.panic
       \/ \E file \in NestestFiles : \E started \in {nestest(file)} :
          /\ ines = [state |-> "start", file |-> file,
                     result |-> INes_new(file)]
          /\ phase = IF started.state = "ok" THEN "frame" ELSE "no_cpu"
          /\ \E c \in {IF started.state = "ok" THEN started.cpu
                       ELSE CpuCoreNew(ZeroRam)} :
               /\ a = c.a /\ x = c.x /\ y = c.y /\ sp = c.sp /\ pc = c.pc
               /\ status = c.status /\ fetched = c.fetched
               /\ addr_abs = c.addr_abs /\ addr_rel = c.addr_rel
               /\ opcode = c.opcode /\ cycles = c.cycles
               /\ clock_count = c.clock_count /\ ram = c.ram
               /\ panic = IF started.state = "panic" THEN "ines_panic" ELSE "none"
    /\ overflow_checks \in BOOLEAN
    /\ resets_left = MaxMainResets
    /\ tick_limit = MaxMainTicks
    /\ disas = NoDisas

\* one pass of the step loop: `cpu.clock(); if cpu.complete() { break; }`
StepLoopPass ==
    /\ panic = "none"
    /\ clock_count < tick_limit
    /\ \E c \in {clock(Core)} :
         /\ Becomes(c)
         /\ phase' = IF ~Panicked(c) /\ complete(c) THEN "frame" ELSE "stepping"
    /\ UNCHANGED <<overflow_checks, resets_left, tick_limit, disas, ines>>

\* `if is_key_pressed(KeyCode::Space)`: the step loop is entered
KeySpace ==
    /\ phase = "frame"
    /\ StepLoopPass

\* the step loop goes round again
StepAgain ==
    /\ phase = "stepping"
    /\ StepLoopPass

\* `if is_key_pressed(KeyCode::R) { cpu.reset() }`
KeyR ==
    /\ phase = "frame"
    /\ panic = "none"
    /\ resets_left > 0
    /\ \E c \in {reset(Core)} : Becomes(c)
    /\ resets_left' = resets_left - 1
    /\ UNCHANGED <<overflow_checks, phase, tick_limit, disas, ines>>

NextMain == KeySpace \/ StepAgain \/ KeyR

SpecMain == InitMain /\ [][NextMain]_vars

(***************************************************************************)
(* The flags alone, as the unit tests use them: CpuCore::new(Bus::new()),  *)
(* then calls of set_flag with single flags and with unions.               *)
(***************************************************************************)
FlagArguments == {C, Z, I, D, B, U, V, N, I + N, C + V, C + Z + V + N, 255}

InitFlags ==
    /\ \E c \in {CpuCoreNew(ZeroRam)} :
         /\ a = c.a /\ x = c.x /\ y = c.y /\ sp = c.sp /\ pc = c.pc
         /\ status = c.status /\ fetched = c.fetched
         /\ addr_abs = c.addr_abs /\ addr_rel = c.addr_rel
         /\ opcode = c.opcode /\ cycles = c.cycles
         /\ clock_count = c.clock_count /\ ram = c.ram /\ panic = c.panic
    /\ overflow_checks \in BOOLEAN
    /\ phase = "flags_new"
    /\ resets_left = 0
    /\ tick_limit = 0
    /\ disas = NoDisas
    /\ ines = NoINes

\* cpu.set_flag(flag, on_off)
SetFlagCall(flag, on_off) ==
    /\ phase \in {"flags_new", "flags_set"}
    /\ \E c \in {set_flag(Core, flag, on_off)} : Becomes(c)
    /\ phase' = "flags_set"
    /\ UNCHANGED <<overflow_checks, resets_left, tick_limit, disas, ines>>

NextFlags == \E flag \in FlagArguments, on_off \in BOOLEAN : SetFlagCall(flag, on_off)

SpecFlags == InitFlags /\ [][NextFlags]_vars

(***************************************************************************)
(* The Bus alone: Bus::new, then reads and writes by a caller.  The        *)
(* caller's last access is kept in the scratch variables: addr_abs is its  *)
(* address and fetched the byte written or returned.                       *)
(***************************************************************************)
MaxBusOps == 3

BusAddrs == {\h0000, \h0001, \h00FF, \h0100, \h07FF, \h0800, \h8000, \hFFFF}
BusValues == {\h00, \h01, \hFF}

InitBus ==
    /\ ram = ZeroRam
    /\ overflow_checks \in BOOLEAN
    /\ a = 0 /\ x = 0 /\ y = 0 /\ sp = 0 /\ pc = 0 /\ status = 0
    /\ fetched = 0 /\ addr_abs = 0 /\ addr_rel = 0 /\ opcode = 0
    /\ cycles = 0 /\ clock_count = 0
    /\ panic = "none"
    /\ phase = "bus_new"
    /\ resets_left = 0
    /\ tick_limit = MaxBusOps
    /\ disas = NoDisas
    /\ ines = NoINes

\* bus.write(addr, data)
BusWriteCall ==
    /\ phase \in {"bus_new", "bus_written", "bus_read"}
    /\ tick_limit > 0
    /\ \E addr \in BusAddrs, data \in BusValues :
         /\ ram' = BusWrite(ram, addr, data)
         /\ addr_abs' = addr
         /\ fetched' = data
    /\ phase' = "bus_written"
    /\ tick_limit' = tick_limit - 1
    /\ UNCHANGED <<a, x, y, sp, pc, status, addr_rel, opcode, cycles,
                   clock_count, panic, overflow_checks, resets_left,
                   disas, ines>>

\* bus.read(addr)
BusReadCall ==
    /\ phase \in {"bus_new", "bus_written"}
    /\ \E addr \in BusAddrs :
         /\ addr_abs' = addr
         /\ fetched' = BusRead(ram, addr)
    /\ phase' = "bus_read"
    /\ UNCHANGED <<a, x, y, sp, pc, status, addr_rel, opcode, cycles,
                   clock_count, ram, panic, overflow_checks, resets_left,
                   tick_limit, disas, ines>>

NextBus == BusWriteCall \/ BusReadCall

SpecBus == InitBus /\ [][NextBus]_vars

(***************************************************************************)
(* Vocabulary of the properties, read off the state before a step.         *)
(***************************************************************************)
\* flag f (a single bit) is set in the status byte st
FlagSet(st, f) == (st \div f) % 2 = 1

\* the status byte with flag U left out
WithoutU(st) == IF FlagSet(st, U) THEN st - U ELSE st

Hi(addr) == addr \div 256

\* an 8-bit offset sign-extended to a 16-bit displacement
SignExtend(v) == IF v >= 128 THEN v + 65280 ELSE v

\* a clock() call that fetches an opcode, and one that only counts down
DecodeTick == Tick /\ cycles = 0
IdleTick == Tick /\ cycles # 0

\* the opcode byte at PC, its table entry and its operand bytes
OpAtPc == BusRead(ram, pc)
EntryAtPc == Lookup(OpAtPc)
Operand1 == BusRead(ram, (pc + 1) % 65536)
Operand2 == BusRead(ram, (pc + 2) % 65536)

\* the core as the addressing mode and the operation of this opcode find it
AtAddrMode ==
    [IncPc(set_flag([Core EXCEPT !.opcode = OpAtPc], U, TRUE))
        EXCEPT !.cycles = EntryAtPc.cycles]
ExtraAddr == AddrModeRun(EntryAtPc.addr_mode, AtAddrMode).extra
ExtraOp == OperationRun(EntryAtPc.name, AddrModeRun(EntryAtPc.addr_mode, AtAddrMode).cpu).extra
BothExtra == IF ExtraAddr = 1 /\ ExtraOp = 1 THEN 1 ELSE 0

\* a BNE at PC: the address after it, its target, and what a taken branch adds
BranchNext == (pc + 2) % 65536
BranchTarget == (BranchNext + SignExtend(Operand1)) % 65536
BranchTaken == OpAtPc = \hD0 /\ ~FlagSet(status, Z)
(***************************************************************************)
(* C1.  After reset(), clock() never fails on its cycle counter: the       *)
(* counter is at least 1 whenever clock() decrements it, so it never goes  *)
(* below zero, whatever opcode byte is fetched.                            *)
(***************************************************************************)
C1_CyclesNeverUnderflow == panic # "cycles_underflow" /\ cycles >= 0

(***************************************************************************)
(* C2.  For every opcode, after the decode step of clock() the counter is  *)
(* base cycles plus (extra_addr AND extra_op); that clock() and every      *)
(* later one then take exactly 1 from it until it reaches zero: no call    *)
(* fails and the counter never goes below zero.                            *)
(***************************************************************************)
C2_DecodeCyclesAsClaimed ==
    [][ /\ DecodeTick =>
            /\ panic' = "none"
            /\ cycles' = EntryAtPc.cycles + BothExtra - 1
            /\ cycles' >= 0
        /\ IdleTick =>
            /\ panic' = "none"
            /\ cycles' = cycles - 1
            /\ cycles' >= 0 ]_vars

(***************************************************************************)
(* C3.  reset(), from any state and over any memory, leaves A = X = Y = 0, *)
(* SP = 0xFD, status = 0x20, PC = the little-endian word at 0xFFFC,        *)
(* cycles = 8 and addr_abs = addr_rel = fetched = 0, and changes no byte   *)
(* of memory.                                                              *)
(***************************************************************************)
C3_Reset ==
    [][ Reset =>
          /\ a' = 0 /\ x' = 0 /\ y' = 0
          /\ sp' = 253
          /\ status' = 32
          /\ pc' = BusRead(ram, 65532) + 256 * BusRead(ram, 65533)
          /\ cycles' = 8
          /\ addr_abs' = 0 /\ addr_rel' = 0 /\ fetched' = 0
          /\ ram' = ram ]_vars

\* a reset() that came after instructions had run
W_C3 ==
    /\ phase = "running" /\ cycles = 8 /\ clock_count >= 15
    /\ a = 0 /\ x = 0 /\ y = 0 /\ pc = \h8000 /\ opcode # 0

(***************************************************************************)
(* C4.  In every state from the first reset() on, flag U is 1.             *)
(***************************************************************************)
C4_UnusedFlagSet == phase = "running" => FlagSet(status, U)

\* an ADC has written C, Z, V and N, and U is still there
W_C4 ==
    /\ phase = "running" /\ opcode = \h65 /\ clock_count = 15
    /\ FlagSet(status, U) /\ FlagSet(status, V)

(***************************************************************************)
(* C5.  A clock() that fetches an opcode the table lacks is a no-op: PC    *)
(* ends one past the opcode, A, X, Y, SP, the flags other than U and RAM   *)
(* keep their values, and the cycle counter is 0 afterwards.               *)
(***************************************************************************)
C5_UndefinedOpcodeNoOp ==
    [][ (DecodeTick /\ OpAtPc \notin DOMAIN opcodes) =>
          /\ panic' = "none"
          /\ pc' = (pc + 1) % 65536
          /\ a' = a /\ x' = x /\ y' = y /\ sp' = sp
          /\ WithoutU(status') = WithoutU(status)
          /\ ram' = ram
          /\ cycles' = 0 ]_vars

(***************************************************************************)
(* C6.  Every opcode of the table other than BNE takes base cycles + 1     *)
(* ticks when its addressing mode (ABX, ABY, IZY) crossed a page and its   *)
(* operation is LDA, LDX, LDY or ADC, and base cycles ticks otherwise.     *)
(* An instruction takes n ticks when the clock() that decodes it leaves    *)
(* n - 1 cycles, n >= 1.                                                   *)
(***************************************************************************)
\* the base address the mode indexes, as the addressing-mode table gives it
IndexedBase ==
    IF EntryAtPc.addr_mode = "IZY"
    THEN BusRead(ram, Operand1) + 256 * BusRead(ram, (Operand1 + 1) % 256)
    ELSE Operand1 + 256 * Operand2
IndexOf == IF EntryAtPc.addr_mode = "ABX" THEN x ELSE y
CrossedPage ==
    /\ EntryAtPc.addr_mode \in {"ABX", "ABY", "IZY"}
    /\ Hi((IndexedBase + IndexOf) % 65536) # Hi(IndexedBase)
Sensitive == EntryAtPc.name \in {"LDA", "LDX", "LDY", "ADC"}

C6_PageCrossPenalty ==
    [][ (DecodeTick /\ OpAtPc \in DOMAIN opcodes /\ EntryAtPc.name # "BNE") =>
          /\ panic' = "none"
          /\ cycles' >= 0
          /\ cycles' + 1 = EntryAtPc.cycles
                           + (IF CrossedPage /\ Sensitive THEN 1 ELSE 0) ]_vars

(***************************************************************************)
(* C7.  The demo program of test0, after reset(), reaches PC = 0x8019, and *)
(* whenever PC = 0x8019: RAM[2] = 0x1E, A = 0x1E, X = 3, Y = 0, Z = 1 and  *)
(* N = 0.                                                                  *)
(***************************************************************************)
C7_DemoResult ==
    /\ <>(pc = 32793)
    /\ [](pc = 32793 =>
            /\ BusRead(ram, 2) = 30
            /\ a = 30 /\ x = 3 /\ y = 0
            /\ FlagSet(status, Z) /\ ~FlagSet(status, N))

\* the store that ends the loop has run: PC is at the first NOP
W_C7 == pc = 32793 /\ BusRead(ram, 2) = 30 /\ opcode = \h8D /\ panic = "none"

(***************************************************************************)
(* C8.  ADC, for every A, operand and carry-in: with t = A + operand + C,  *)
(* C = (t > 255), Z = (t mod 256 = 0), V = (A and the operand have the     *)
(* same bit 7 and t has the other one), N = bit 7 of t, A = t mod 256;     *)
(* X, Y, SP and memory keep their values.                                  *)
(***************************************************************************)
Bit7(v) == (v \div 128) % 2

C8_ADC ==
    [][ RunADC =>
          LET operand == BusRead(ram, ADCOperandAddr)
              t == a + operand + (IF FlagSet(status, C) THEN 1 ELSE 0)
          IN /\ a' = t % 256
             /\ FlagSet(status', C) = (t > 255)
             /\ FlagSet(status', Z) = (t % 256 = 0)
             /\ FlagSet(status', V) = (Bit7(a) = Bit7(operand) /\ Bit7(a) # Bit7(t))
             /\ FlagSet(status', N) = (Bit7(t) = 1)
             /\ (a = 127 /\ operand = 1 /\ ~FlagSet(status, C)) =>
                    (a' = 128 /\ status' = U + V + N)
             /\ x' = x /\ y' = y /\ sp' = sp /\ ram' = ram
             /\ panic' = "none" ]_vars

\* 0x7F + 0x01 has overflowed into 0x80
W_C8 ==
    /\ phase = "adc_done" /\ a = 128 /\ fetched = 1
    /\ FlagSet(status, V) /\ FlagSet(status, N)
    /\ ~FlagSet(status, Z) /\ ~FlagSet(status, C)

(***************************************************************************)
(* C9.  A BNE takes 2 ticks when not taken, 3 when taken to a target in    *)
(* the page of the address after the instruction, 4 when taken to a target *)
(* in another page.                                                        *)
(***************************************************************************)
C9_BranchTicks ==
    [][ (DecodeTick /\ OpAtPc = \hD0) =>
          /\ panic' = "none"
          /\ cycles' + 1 =
               (IF FlagSet(status, Z) THEN 2
                ELSE IF Hi(BranchTarget) = Hi(BranchNext) THEN 3 ELSE 4) ]_vars

(***************************************************************************)
(* C10.  LDA (zp),Y (opcode 0xB1) loads A from base + Y, base being the    *)
(* little-endian word at zp and zp + 1, and takes 6 ticks when base + Y    *)
(* is in another page than base and 5 otherwise; Y = 0xFF over             *)
(* RAM[0x20] = 0x80, RAM[0x21] = 0, RAM[0x017F] = 0x42 gives A = 0x42 in   *)
(* 6 ticks.                                                                *)
(***************************************************************************)
C10_LoadIndirectY ==
    [][ (DecodeTick /\ OpAtPc = \hB1) =>
          LET base == BusRead(ram, Operand1) + 256 * BusRead(ram, Operand1 + 1)
              target == (base + y) % 65536
          IN /\ panic' = "none"
             /\ a' = BusRead(ram, target)
             /\ cycles' + 1 = (IF Hi(target) # Hi(base) THEN 6 ELSE 5)
             /\ (y = 255 /\ Operand1 = 32 /\ BusRead(ram, 32) = 128
                    /\ BusRead(ram, 33) = 0 /\ BusRead(ram, 383) = 66)
                  => (a' = 66 /\ cycles' = 5) ]_vars

\* LDA ($20),Y with Y = 0xFF has loaded 0x42 from 0x017F; 5 of 6 ticks remain
W_C10 ==
    /\ opcode = \hB1 /\ y = 255 /\ addr_abs = 383 /\ a = 66
    /\ cycles = 5 /\ panic = "none"

(***************************************************************************)
(* C11: IND reads the pointer from the two operand bytes; the low byte of  *)
(* addr_abs is the byte at ptr, the high byte is the byte at the start of  *)
(* ptr's page when the low byte of ptr is 0xFF and the byte at ptr + 1     *)
(* otherwise; PC advances by 2 and no page cross is reported.  With        *)
(* RAM[0x30FF] = 0x40, RAM[0x3000] = 0x80, RAM[0x3100] = 0x50 and          *)
(* ptr = 0x30FF, addr_abs is 0x8040.                                       *)
(***************************************************************************)
INDPointer == BusRead(ram, pc) + 256 * BusRead(ram, pc + 1)

C11_IndirectPageWrap ==
    [][RunIND =>
        /\ panic' = "none"
        /\ pc' = pc + 2
        /\ addr_abs' % 256 = BusRead(ram, INDPointer)
        /\ addr_abs' \div 256 =
              IF INDPointer % 256 = 255
              THEN BusRead(ram, INDPointer - 255)
              ELSE BusRead(ram, INDPointer + 1)
        /\ IND_run(Core).extra = 0
        /\ (/\ INDPointer = 12543
            /\ BusRead(ram, 12543) = 64
            /\ BusRead(ram, 12288) = 128
            /\ BusRead(ram, 12544) = 80) => addr_abs' = 32832]_vars

W_C11 ==
    /\ phase = "ind_done"
    /\ panic = "none"
    /\ BusRead(ram, INDOpcodeAddr + 1) = 255
    /\ BusRead(ram, INDOpcodeAddr + 2) = 48
    /\ BusRead(ram, 12544) = 80
    /\ addr_abs = 32832
    /\ pc = INDOpcodeAddr + 3

(***************************************************************************)
(* C12: each of the opcodes 0x1C, 0x3C, 0x5C, 0x7C, 0xDC, 0xFC runs as an  *)
(* absolute-X NOP: PC advances by 3, no register, flag or memory changes,  *)
(* and one tick is added to the base count exactly when base + X crosses a *)
(* page; every other NOP opcode never adds a tick.                         *)
(***************************************************************************)
AbsXNops == {\h1C, \h3C, \h5C, \h7C, \hDC, \hFC}

AbsXNopCrosses == Hi((Operand1 + 256 * Operand2 + x) % 65536) # Operand2

C12_AbsoluteXNop ==
    [][DecodeTick /\ OpAtPc \in NopOpcodes =>
        /\ OpAtPc \in AbsXNops =>
              /\ pc' = (pc + 3) % 65536
              /\ a' = a /\ x' = x /\ y' = y /\ sp' = sp
              /\ status' = status
              /\ ram' = ram
              /\ ExtraAddr = (IF AbsXNopCrosses THEN 1 ELSE 0)
              /\ BothExtra = ExtraAddr
        /\ OpAtPc \notin AbsXNops => BothExtra = 0]_vars

(***************************************************************************)
(* C13: the opcode table has an entry for each of the 151 official 6502    *)
(* opcodes, so that no official opcode is decoded with the synthetic entry *)
(* of an undefined opcode.                                                 *)
(***************************************************************************)
OfficialOpcodes ==
    { \h69, \h65, \h75, \h6D, \h7D, \h79, \h61, \h71,      \* ADC
      \h29, \h25, \h35, \h2D, \h3D, \h39, \h21, \h31,      \* AND
      \h0A, \h06, \h16, \h0E, \h1E,                        \* ASL
      \h90, \hB0, \hF0, \h30, \hD0, \h10, \h50, \h70,      \* branches
      \h24, \h2C, \h00,                                    \* BIT, BRK
      \h18, \hD8, \h58, \hB8,                              \* CLC CLD CLI CLV
      \hC9, \hC5, \hD5, \hCD, \hDD, \hD9, \hC1, \hD1,      \* CMP
      \hE0, \hE4, \hEC, \hC0, \hC4, \hCC,                  \* CPX, CPY
      \hC6, \hD6, \hCE, \hDE, \hCA, \h88,                  \* DEC, DEX, DEY
      \h49, \h45, \h55, \h4D, \h5D, \h59, \h41, \h51,      \* EOR
      \hE6, \hF6, \hEE, \hFE, \hE8, \hC8,                  \* INC, INX, INY
      \h4C, \h6C, \h20,                                    \* JMP, JSR
      \hA9, \hA5, \hB5, \hAD, \hBD, \hB9, \hA1, \hB1,      \* LDA
      \hA2, \hA6, \hB6, \hAE, \hBE,                        \* LDX
      \hA0, \hA4, \hB4, \hAC, \hBC,                        \* LDY
      \h4A, \h46, \h56, \h4E, \h5E, \hEA,                  \* LSR, NOP
      \h09, \h05, \h15, \h0D, \h1D, \h19, \h01, \h11,      \* ORA
      \h48, \h08, \h68, \h28,                              \* PHA PHP PLA PLP
      \h2A, \h26, \h36, \h2E, \h3E,                        \* ROL
      \h6A, \h66, \h76, \h6E, \h7E,                        \* ROR
      \h40, \h60,                                          \* RTI, RTS
      \hE9, \hE5, \hF5, \hED, \hFD, \hF9, \hE1, \hF1,      \* SBC
      \h38, \hF8, \h78,                                    \* SEC SED SEI
      \h85, \h95, \h8D, \h9D, \h99, \h81, \h91,            \* STA
      \h86, \h96, \h8E, \h84, \h94, \h8C,                  \* STX, STY
      \hAA, \hA8, \hBA, \h8A, \h9A, \h98 }                 \* transfers

C13_OfficialOpcodesPresent ==
    /\ Cardinality(OfficialOpcodes) = 151
    /\ (phase = "running" /\ cycles = 0 /\ OpAtPc \in OfficialOpcodes)
          => (OpAtPc \in DOMAIN opcodes /\ EntryAtPc.name # "XXX")

(***************************************************************************)
(* C14: disassemble(start, 0xFFFF) returns normally for every memory       *)
(* content and start address: its cursor is never incremented past 0xFFFF, *)
(* also when a 2- or 3-byte instruction begins at 0xFFFD or 0xFFFE.        *)
(***************************************************************************)
C14_DisassembleNoOverflow ==
    (disas.state # "off" /\ disas.stop = 65535) =>
        /\ disas.state \in {"loop", "returned"}
        /\ ~disas.wrapped

(***************************************************************************)
(* C15: the line of a REL-mode instruction holds the offset byte and the   *)
(* branch target, and the target is the address a taken branch loads into  *)
(* PC: the address after the operand plus the offset sign-extended from 8  *)
(* to 16 bits, modulo 65536, for negative and positive offsets alike.      *)
(***************************************************************************)
DisEntryAt(k) == Lookup(BusRead(ram, k))

RelLineExpected(k) ==
    LET value == BusRead(ram, (k + 1) % 65536)
        target == (k + 2 + SignExtend(value)) % 65536
    IN "$" \o Hex4(k) \o ": " \o DisEntryAt(k).name \o " $" \o Hex2(value)
           \o " [$" \o Hex4(target) \o "] {REL}"

C15_DisassembleBranchTarget ==
    disas.state # "off" =>
        \A k \in DOMAIN disas.lines :
            DisEntryAt(k).addr_mode = "REL" => disas.lines[k] = RelLineExpected(k)

(***************************************************************************)
(* C16: the keys of the map disassemble(start, stop) returns are exactly   *)
(* the instruction start addresses of the walk from start: start, then     *)
(* each key plus the length of its instruction (1, 2 or 3 by addressing    *)
(* mode), for every instruction starting in [start, stop], one starting at *)
(* 0xFFFF included.                                                        *)
(***************************************************************************)
InstructionLength(k) == 1 + OperandCount(DisEntryAt(k).addr_mode)

RECURSIVE WalkKeys(_, _)
WalkKeys(k, stop) ==
    IF k > stop THEN {} ELSE {k} \cup WalkKeys(k + InstructionLength(k), stop)

C16_DisassembleKeys ==
    disas.state = "returned" =>
        DOMAIN disas.lines = WalkKeys(disas.start, disas.stop)

(***************************************************************************)
(* C17: when the file is shorter than its header declares (16 header bytes *)
(* + 512 if the trainer flag is set + PRG size + CHR size), INes::new      *)
(* returns an error to the caller and never aborts abnormally.             *)
(***************************************************************************)
BitOf(value, bit) == (value \div (2 ^ bit)) % 2

FileHeaderByte(i) == ines.file.header[i + 1]

TrainerDeclared == BitOf(FileHeaderByte(6), 2) = 1

FileDeclaredLength ==
    16 + (IF TrainerDeclared THEN 512 ELSE 0)
       + FileHeaderByte(4) * 16384 + FileHeaderByte(5) * 8192

C17_TruncatedFileIsError ==
    (ines.state = "file_done" /\ ines.file.len < FileDeclaredLength)
        => ines.result.state = "err"

(***************************************************************************)
(* C18: a 24,592-byte file whose header is 4E 45 53 1A 01 01 and ten zero  *)
(* bytes parses successfully: prg_rom_size = 16384, chr_rom_size = 8192,   *)
(* mapper 0, TV system NTSC, no trainer, PRG-ROM of 16384 bytes and        *)
(* CHR-ROM of 8192 bytes.                                                  *)
(***************************************************************************)
C18_ParseScenario ==
    (/\ ines.state = "file_done"
     /\ ines.file.len = 24592
     /\ ines.file.header = << 78, 69, 83, 26, 1, 1, 0, 0, 0, 0, 0, 0, 0, 0, 0, 0 >>)
        => /\ ines.result.state = "ok"
           /\ ines.result.header.prg_rom_size = 16384
           /\ ines.result.header.chr_rom_size = 8192
           /\ ines.result.header.mapper_number = 0
           /\ ines.result.header.tv_system = "Ntsc"
           /\ ~ines.result.header.trainer_512
           /\ ~ines.result.trainer.some
           /\ ines.result.prg_rom.len = 16384
           /\ ines.result.chr_rom.len = 8192

(***************************************************************************)
(* C19: for a valid header and a file at least as long as declared, the    *)
(* trainer is present iff bit 2 of byte 6 is set and is then file bytes    *)
(* 16..527; PRG-ROM is the prg * 16384 bytes from offset 16 without a      *)
(* trainer and from offset 528 with one; CHR-ROM is the chr * 8192 bytes   *)
(* right after PRG-ROM; what follows is ignored.                           *)
(***************************************************************************)
FileHeaderValid == Header_new(ines.file.header).state = "ok"

PrgOffset == IF TrainerDeclared THEN 528 ELSE 16

C19_BodyLayout ==
    (/\ ines.state = "file_done"
     /\ FileHeaderValid
     /\ ines.file.len >= FileDeclaredLength)
        => /\ ines.result.state = "ok"
           /\ ines.result.trainer.some <=> TrainerDeclared
           /\ TrainerDeclared => ines.result.trainer.bytes = Slice(16, 512)
           /\ ines.result.prg_rom = Slice(PrgOffset, FileHeaderByte(4) * 16384)
           /\ ines.result.chr_rom =
                Slice(PrgOffset + FileHeaderByte(4) * 16384,
                      FileHeaderByte(5) * 8192)

(***************************************************************************)
(* C20: Header::new rejects a 16-byte header exactly when bytes 0-3 are    *)
(* not 4E 45 53 1A, or bit 1 of byte 7 is set, or bits 2-3 of byte 7 hold  *)
(* the value 2, or one of bits 1-7 of byte 9 is set; it accepts every      *)
(* other header.                                                           *)
(***************************************************************************)
HeaderByte(i) == ines.header[i + 1]

MustReject ==
    \/ << HeaderByte(0), HeaderByte(1), HeaderByte(2), HeaderByte(3) >>
         # << 78, 69, 83, 26 >>
    \/ BitOf(HeaderByte(7), 1) = 1
    \/ (BitOf(HeaderByte(7), 3) = 1 /\ BitOf(HeaderByte(7), 2) = 0)
    \/ HeaderByte(9) >= 2

C20_HeaderRejection ==
    ines.state = "header_done" =>
        /\ ines.result.state \in {"ok", "err"}
        /\ ines.result.state = "err" <=> MustReject

W_C20 ==
    /\ ines.state = "header_done"
    /\ HeaderByte(7) = 4
    /\ HeaderByte(9) = 1
    /\ ines.result.state = "ok"

(***************************************************************************)
(* C21: for every accepted header, prg_rom_size = byte 4 * 16384,          *)
(* chr_rom_size = byte 5 * 8192, prg_ram_size = max(byte 8, 1) * 8192 and  *)
(* mapper_number = (byte 7 & 0xF0) | (byte 6 >> 4), without overflow for   *)
(* any byte values.                                                        *)
(***************************************************************************)
C21_HeaderSizes ==
    (ines.state = "header_done" /\ ~MustReject) =>
        /\ ines.result.state = "ok"
        /\ ines.result.prg_rom_size = HeaderByte(4) * 16384
        /\ ines.result.chr_rom_size = HeaderByte(5) * 8192
        /\ ines.result.prg_ram_size =
              (IF HeaderByte(8) > 1 THEN HeaderByte(8) ELSE 1) * 8192
        /\ ines.result.mapper_number =
              (HeaderByte(7) \div 16) * 16 + HeaderByte(6) \div 16
        /\ ines.result.mapper_number \in Byte

W_C21 ==
    /\ ines.state = "header_done"
    /\ ines.result.state = "ok"
    /\ HeaderByte(4) = 255 /\ HeaderByte(5) = 255 /\ HeaderByte(8) = 255
    /\ HeaderByte(6) = 251 /\ HeaderByte(7) = 240
    /\ ines.result.mapper_number = 255
    /\ ines.result.prg_rom_size = 4177920

(***************************************************************************)
(* C22: the bus is a flat, total 64 KiB array: every address reads 0 after *)
(* Bus::new; read(a) right after write(a, v) returns v, for every address; *)
(* write(a, v) changes no address other than a; read changes nothing.      *)
(***************************************************************************)
C22_FlatMemory ==
    /\ [](phase = "bus_new" => \A k \in 0..65535 : BusRead(ram, k) = 0)
    /\ [][BusWriteCall =>
            /\ BusRead(ram', addr_abs') = fetched'
            /\ \A k \in (BusAddrs \cup DOMAIN ram \cup DOMAIN ram') \ {addr_abs'} :
                  BusRead(ram', k) = BusRead(ram, k)]_vars
    /\ [][BusReadCall =>
            /\ ram' = ram
            /\ phase = "bus_written" => (addr_abs' = addr_abs => fetched' = fetched)]_vars

W_C22 ==
    /\ phase = "bus_read"
    /\ addr_abs = 2048
    /\ fetched = 255
    /\ BusRead(ram, 0) = 1
    /\ BusRead(ram, 65535) = 255

(***************************************************************************)
(* C23: a tick entered with cycles > 0 is idle: it only takes 1 from       *)
(* cycles and adds 1 to clock_count, and leaves A, X, Y, SP, PC, status    *)
(* and RAM as they were.  The 8 ticks after reset() are idle, complete()   *)
(* is first true after the 8th, and the 9th fetches the opcode at the      *)
(* reset vector.                                                           *)
(***************************************************************************)
ResetVector == BusRead(ram, 65532) + 256 * BusRead(ram, 65533)

C23_IdleTicks ==
    /\ [][IdleTick =>
            /\ panic' = "none"
            /\ cycles' = cycles - 1
            /\ clock_count' = clock_count + 1
            /\ a' = a /\ x' = x /\ y' = y /\ sp' = sp /\ pc' = pc
            /\ status' = status
            /\ ram' = ram]_vars
    /\ []((phase = "running" /\ clock_count <= 8) =>
            /\ cycles = 8 - clock_count
            /\ complete(Core) <=> clock_count = 8
            /\ pc = ResetVector)
    /\ [][(Tick /\ clock_count = 8) =>
            /\ opcode' = BusRead(ram, ResetVector)
            /\ pc' # pc]_vars

W_C23 ==
    /\ phase = "running"
    /\ clock_count = 9
    /\ opcode = 169
    /\ cycles = 1
    /\ pc = 32770

(***************************************************************************)
(* C24: clock_count is the number of ticks since reset: every tick that    *)
(* returns adds exactly 1, nothing else lowers it, and right after any     *)
(* reset(), a second or later one included, no tick has been counted.      *)
(***************************************************************************)
C24_TicksSinceReset ==
    [][/\ (Tick /\ panic' = "none") => clock_count' = clock_count + 1
       /\ Reset => clock_count' = 0]_vars

(***************************************************************************)
(* C25: in the event loop of the front end, whatever Space and R keys are  *)
(* pressed after start-up, reset() is called only when complete() is true, *)
(* never while cycles > 0.                                                 *)
(***************************************************************************)
C25_ResetOnlyWhenComplete == [][KeyR => complete(Core)]_vars

(***************************************************************************)
(* C27: set_flag(F, true) makes get_flag true for every flag of F and      *)
(* leaves the flags outside F as they were; set_flag(F, false) clears      *)
(* exactly the flags of F; for single flags and for unions such as I|N,    *)
(* from any status.                                                        *)
(***************************************************************************)
SingleFlags == {C, Z, I, D, B, U, V, N}

C27_SetFlag ==
    [][\A F \in FlagArguments, on_off \in BOOLEAN :
         SetFlagCall(F, on_off) =>
            \A f \in SingleFlags :
               /\ (FlagSet(F, f) /\ on_off) =>
                     (FlagSet(status', f) /\ get_flag([status |-> status'], f))
               /\ (FlagSet(F, f) /\ ~on_off) =>
                     (~FlagSet(status', f) /\ ~get_flag([status |-> status'], f))
               /\ ~FlagSet(F, f) => (FlagSet(status', f) <=> FlagSet(status, f))]_vars

W_C27 ==
    /\ phase = "flags_set"
    /\ status = I + N
    /\ get_flag(Core, I) /\ get_flag(Core, N) /\ ~get_flag(Core, C)

(***************************************************************************)
(* C28: a freshly constructed core, before reset() or any other call, has  *)
(* every status flag clear: C, Z, I, D, B, U, V and N all read false.      *)
(***************************************************************************)
C28_FreshCoreFlagsClear ==
    phase = "flags_new" => \A f \in SingleFlags : ~get_flag(Core, f)

W_C28 ==
    /\ phase = "flags_new"
    /\ ~get_flag(Core, U)
    /\ cycles = 0 /\ clock_count = 0 /\ pc = 0

(***************************************************************************)
(* C29.  IZX stays inside the zero page: with zp = (operand + X) mod 256,  *)
(* addr_abs is the byte at zp for its low half and the byte at             *)
(* (zp + 1) mod 256 for its high half, so no address above 0x00FF takes    *)
(* part in the pointer (operand 0xFF with X = 0x01 uses 0x0000 and         *)
(* 0x0001; zp = 0xFF uses 0x00FF and 0x0000).                              *)
(***************************************************************************)
C29_IndexedIndirectInZeroPage ==
    [][ (DecodeTick /\ EntryAtPc.addr_mode = "IZX" /\ panic' = "none") =>
          LET zp == (Operand1 + x) % 256
          IN addr_abs' = BusRead(ram, zp) + 256 * BusRead(ram, (zp + 1) % 256) ]_vars

(***************************************************************************)
(* C30.  IZY reads its base pointer inside the zero page: the low half of  *)
(* base is the byte at zp and the high half the byte at (zp + 1) mod 256   *)
(* (for zp = 0xFF the byte at 0x0000, not the one at 0x0100); addr_abs is  *)
(* (base + Y) mod 65536, and a page cross is reported iff the high byte    *)
(* of addr_abs differs from the high byte of base.                         *)
(***************************************************************************)
C30_IndirectIndexedBaseInZeroPage ==
    [][ (DecodeTick /\ EntryAtPc.addr_mode = "IZY" /\ panic' = "none") =>
          LET zp == Operand1
              base == BusRead(ram, zp) + 256 * BusRead(ram, (zp + 1) % 256)
          IN /\ addr_abs' = (base + y) % 65536
             /\ (ExtraAddr = 1) <=> (Hi(addr_abs') # Hi(base)) ]_vars

(***************************************************************************)
(* C31.  ABX and ABY: with base the little-endian word of the two operand  *)
(* bytes, addr_abs is (base + index) mod 65536, PC advances by 2, and a    *)
(* page cross is reported exactly when the high byte of addr_abs differs   *)
(* from the high byte of base (the wrap from 0xFFxx to 0x00xx included);   *)
(* none is reported when the index is 0.                                   *)
(***************************************************************************)
C31_AbsoluteIndexed ==
    [][RunIndexed =>
         LET mode == Lookup(opcode).addr_mode
             base == BusRead(ram, pc) + 256 * BusRead(ram, pc + 1)
             index == IF mode = "ABX" THEN x ELSE y
             crossed == AddrModeRun(mode, Core).extra
         IN /\ mode \in {"ABX", "ABY"}
            /\ panic' = "none"
            /\ addr_abs' = (base + index) % 65536
            /\ pc' = pc + 2
            /\ crossed \in {0, 1}
            /\ (crossed = 1) <=> (Hi(addr_abs') # Hi(base))
            /\ index = 0 => crossed = 0 ]_vars

\* LDA $FFFF,X with X = 0x80 has wrapped to 0x007F
W_C31 ==
    /\ phase = "indexed_done"
    /\ opcode = \hBD
    /\ BusRead(ram, IndexedOpcodeAddr + 1) = 255
    /\ BusRead(ram, IndexedOpcodeAddr + 2) = 255
    /\ x = 128
    /\ addr_abs = 127
    /\ pc = IndexedOpcodeAddr + 3
    /\ panic = "none"

(***************************************************************************)
(* C32.  PC arithmetic wraps modulo 65536 during clock(): when the opcode  *)
(* byte or an operand byte is at 0xFFFF, fetching it moves PC on to 0x0000 *)
(* and the call does not fail; after the decode PC is past the instruction *)
(* modulo 65536 (a taken branch aside).                                    *)
(***************************************************************************)
C32_PcWraps ==
    [][ (DecodeTick /\ pc + OperandCount(EntryAtPc.addr_mode) >= 65535) =>
          /\ panic' = "none"
          /\ ~BranchTaken =>
                pc' = (pc + 1 + OperandCount(EntryAtPc.addr_mode)) % 65536 ]_vars

(***************************************************************************)
(* C33.  BNE with Z = 0 sets PC to the address of the byte after the       *)
(* 2-byte instruction plus the operand sign-extended from 8 to 16 bits,    *)
(* modulo 65536; with Z = 1 PC is the address after the instruction.  In   *)
(* both cases A, X, Y, SP, the flags C, Z, I, D, V, N and RAM keep their   *)
(* values.                                                                 *)
(***************************************************************************)
C33_BranchNotEqual ==
    [][ (DecodeTick /\ OpAtPc = \hD0) =>
          /\ panic' = "none"
          /\ pc' = (IF FlagSet(status, Z) THEN BranchNext ELSE BranchTarget)
          /\ a' = a /\ x' = x /\ y' = y /\ sp' = sp
          /\ \A f \in {C, Z, I, D, V, N} : FlagSet(status', f) <=> FlagSet(status, f)
          /\ ram' = ram ]_vars

\* BNE -128 at 0x8006 has been taken, back to 0x7F88
W_C33 ==
    /\ opcode = \hD0
    /\ BusRead(ram, 32775) = 128
    /\ ~FlagSet(status, Z)
    /\ pc = 32648
    /\ addr_rel = 65408
    /\ panic = "none"

(***************************************************************************)
(* C34.  LDA, LDX and LDY, whose addressing mode is never the implied one: *)
(* the target register receives the byte at addr_abs, Z is set iff that    *)
(* byte is 0, N is set iff its bit 7 is 1, and the two other registers,    *)
(* SP, the flags C, I, D, V and all of RAM keep their values.              *)
(***************************************************************************)
C34_Loads ==
    [][ (DecodeTick /\ EntryAtPc.name \in {"LDA", "LDX", "LDY"}) =>
          LET name == EntryAtPc.name
              v == BusRead(ram, addr_abs')
          IN /\ panic' = "none"
             /\ EntryAtPc.addr_mode # "IMP"
             /\ a' = (IF name = "LDA" THEN v ELSE a)
             /\ x' = (IF name = "LDX" THEN v ELSE x)
             /\ y' = (IF name = "LDY" THEN v ELSE y)
             /\ FlagSet(status', Z) <=> (v = 0)
             /\ FlagSet(status', N) <=> (Bit7(v) = 1)
             /\ sp' = sp
             /\ \A f \in {C, I, D, V} : FlagSet(status', f) <=> FlagSet(status, f)
             /\ ram' = ram ]_vars

\* LDX $0020 has loaded 0x80 over X = 0x01: N is set, Z is clear
W_C34 ==
    /\ opcode = \hAE
    /\ addr_abs = 32
    /\ BusRead(ram, 32) = 128
    /\ x = 128
    /\ FlagSet(status, N) /\ ~FlagSet(status, Z)
    /\ pc = 32777
    /\ panic = "none"

(***************************************************************************)
(* C35.  Every entry of the opcode table built by Cpu::new has a base      *)
(* cycle count between 1 and 7 inclusive: whichever entry of the table the *)
(* core has fetched, its count is in that range.                           *)
(***************************************************************************)
C35_TableCycles ==
    \A k \in DOMAIN opcodes :
       opcode = k => (opcodes[k].cycles >= 1 /\ opcodes[k].cycles <= 7)

(***************************************************************************)
(* C36.  A clock() call changes RAM only when the opcode it decodes is a   *)
(* store (STA, STX, STY): then the byte at addr_abs becomes the stored     *)
(* register, every other byte keeps its value, and no register or flag     *)
(* other than PC and U changes; every other call leaves all of RAM         *)
(* unchanged.                                                              *)
(***************************************************************************)
StoredRegister ==
    CASE EntryAtPc.name = "STA" -> a
      [] EntryAtPc.name = "STX" -> x
      [] EntryAtPc.name = "STY" -> y

C36_OnlyStoresWrite ==
    [][ Tick =>
          IF cycles = 0 /\ EntryAtPc.name \in {"STA", "STX", "STY"}
          THEN /\ panic' = "none"
               /\ \A adr \in DOMAIN ram \cup DOMAIN ram' \cup {addr_abs'} :
                     BusRead(ram', adr) =
                        (IF adr = addr_abs' THEN StoredRegister
                                            ELSE BusRead(ram, adr))
               /\ a' = a /\ x' = x /\ y' = y /\ sp' = sp
               /\ WithoutU(status') = WithoutU(status)
          ELSE ram' = ram ]_vars

\* STX $0020 has put X = 0xFF over the 0x80 at 0x0020
W_C36 ==
    /\ opcode = \h8E
    /\ addr_abs = 32
    /\ x = 255 /\ a = 127
    /\ BusRead(ram, 32) = 255
    /\ BusRead(ram, 33) = 0 /\ BusRead(ram, 127) = 240
    /\ pc = 32777
    /\ panic = "none"

(***************************************************************************)
(* C37.  Every run of the step loop of the front end (clock() again and    *)
(* again until complete()), started after reset() over any memory, ends    *)
(* after at most 8 calls and fetches exactly one opcode: its first call    *)
(* finds the counter at 0 and fetches, leaving at most 7 cycles to count,  *)
(* and every further call of the run only counts down by one; no call      *)
(* fails.                                                                  *)
(***************************************************************************)
C37_StepLoopOneInstruction ==
    [][ /\ KeySpace =>
            /\ cycles = 0
            /\ panic' = "none"
            /\ cycles' >= 0 /\ cycles' <= 7
        /\ StepAgain =>
            /\ panic' = "none"
            /\ cycles' = cycles - 1
            /\ cycles' >= 0 ]_vars

====
